---- MODULE Spec2Model ----
(***************************************************************************)
(* Model of the review scheduler (SmartReviewScheduler,                    *)
(* src/src/core/analytics_dashboard.py) and of the per-user profile kept   *)
(* by FlashcardPersonalizer (src/src/core/personalization.py).             *)
(*                                                                         *)
(* Conventions                                                             *)
(*   - a Python dict is a record; a key that is absent (or None) holds     *)
(*     Missing, a key that is present holds Some(value), and               *)
(*     dict.get(k, d) is GetOr(field, d);                                  *)
(*   - an accuracy handed to the scheduler is a whole number of percent    *)
(*     (0.9 is 90); an accuracy computed by the personalizer is the exact  *)
(*     fraction <<correct, total>>;                                        *)
(*   - an ISO timestamp is the record [day, hour]; a datetime is a number  *)
(*     of hours; timedelta(days = k) is k * HoursPerDay;                   *)
(*   - a call that raises records the exception's name in its outcome.     *)
(***************************************************************************)
EXTENDS Integers, Sequences, FiniteSets, TLC

VARIABLES
    now,            \* what datetime.now() returns next, in hours
    sched,          \* the last SmartReviewScheduler call: operation, arguments, outcome
    user_profiles,  \* FlashcardPersonalizer.user_profiles: user id -> profile or Missing
    last_call,      \* the last FlashcardPersonalizer call: operation, arguments, outcome
    calls,          \* number of update_user_profile calls made so far
    raised_calls,   \* number of update_user_profile calls that raised so far
    recorded,       \* per user, every performance entry appended so far (history of the run)
    study_session,  \* the last create_personalized_session call: arguments and StudySession
    themes,         \* UIThemeManager.themes: theme name -> style bundle
    theme_log,      \* the UIThemeManager calls made so far, with their outcomes
    streak_call,    \* the last LearningAnalytics._calculate_study_streak call
    active_sessions,\* AIFlashcardEditor.active_sessions: session id -> EditSession or Missing
    editor_fresh,   \* the edit sessions started and the suggestion objects created so far
    editor_call,    \* the last AIFlashcardEditor call: operation, arguments, outcome
    deck_ratings,   \* the rows of table deck_ratings
    shared_decks,   \* the rows of table shared_decks: deck id -> row or Missing
    rating_call     \* the last CommunityManager.rate_deck call: arguments, outcome

\* the state of the scheduler and the personalizer
core_vars ==
    <<now, sched, user_profiles, last_call, calls, raised_calls, recorded, study_session>>

\* the state of the theme manager
theme_vars == <<themes, theme_log>>

\* the state of the analytics engine, the editor and the community database
analytics_vars == <<streak_call>>
editor_vars == <<active_sessions, editor_fresh, editor_call>>
community_vars == <<deck_ratings, shared_decks, rating_call>>

vars == <<core_vars, theme_vars, analytics_vars, editor_vars, community_vars>>

Missing == <<>>

Some(v) == <<v>>

GetOr(field, default) == IF field = Missing THEN default ELSE field[1]

\* the outcome of a call: what it raised, if anything, and what it returned
Returned(value) == [raised |-> "none", value |-> value]
Raised(error) == [raised |-> error, value |-> <<>>]

\* a local variable the call never assigned
Unassigned == -1

Min(a, b) == IF a < b THEN a ELSE b

Max(a, b) == IF a > b THEN a ELSE b

(***************************************************************************)
(* Bounds                                                                  *)
(***************************************************************************)
MaxIndex == 7        \* largest interval_index a stored record carries
MaxHistory == 2      \* longest per-card performance history
MaxCards == 3        \* longest card list given to get_cards_due_for_review
MaxSessions == 2     \* longest session history given to suggest_optimal_study_time
MaxLongSessions == 10 \* longest history of routine sessions given to it
StartNow == 22       \* the clock at start (day 0, 22:00)
MaxNow == 24         \* the clock stops advancing here (day 1, 00:00)
MaxCalls == 2        \* update_user_profile calls in a run with varied sessions
MaxLongCalls == 32   \* update_user_profile calls in a long run of plain sessions
MaxRaises == 3       \* calls that raise in a long run
MaxDeck == 3         \* longest card list given to create_personalized_session
MaxExamDeck == 2     \* longest card list given to it for an exam-prep session
MaxSessionCalls == 1 \* update_user_profile calls before the session is created
MaxProfileSteps == 2 \* update_user_profile calls in a run over both users
MaxThemeCalls == 2   \* UIThemeManager calls in a run
MaxEditSessions == 1 \* edit sessions started in a run
MaxSuggestions == 2  \* suggestions generated in a run
MaxApplies == 2      \* apply_suggestion calls in a run
MaxRatings == 3      \* rate_deck calls in a run
MaxWeakCalls == 2    \* update_user_profile calls in a run of tagged sessions
MaxStreakSessions == 3 \* recorded sessions of the user whose streak is computed

(***************************************************************************)
(* Time                                                                    *)
(***************************************************************************)
HoursPerDay == 24

\* datetime.fromisoformat(s): the instant an ISO timestamp denotes
FromIsoFormat(s) == s.day * HoursPerDay + s.hour

\* datetime.hour
HourOf(dt) == dt % HoursPerDay

\* timedelta(days = k)
Days(k) == k * HoursPerDay

(***************************************************************************)
(* SmartReviewScheduler                                                    *)
(***************************************************************************)
spaced_repetition_intervals == <<1, 3, 7, 14, 30, 90>>

DefaultAccuracy == 50     \* latest_performance.get('accuracy', 0.5)
AdvanceThreshold == 90    \* accuracy >= 0.9
KeepThreshold == 70       \* accuracy >= 0.7

\* np.random.randint(-1, 2)
Randomization == {-1, 0, 1}

\* Python list indexing, 0-based: negative positions count from the end,
\* anything else outside the list raises IndexError.
InRange(list, i) == i >= -Len(list) /\ i < Len(list)

ListItem(list, i) == IF i >= 0 THEN list[i + 1] ELSE list[Len(list) + i + 1]

\* variant: advances only above 0.9
IntervalIndex_StrictAdvance(latest_performance) ==
    LET accuracy == GetOr(latest_performance.accuracy, DefaultAccuracy)
        stored == GetOr(latest_performance.interval_index, 0)
    IN  IF accuracy > AdvanceThreshold
        THEN Min(Len(spaced_repetition_intervals) - 1, stored + 1)
        ELSE IF accuracy >= KeepThreshold
             THEN stored
             ELSE Max(0, stored - 1)

\* variant: keeps only above 0.7
IntervalIndex_StrictKeep(latest_performance) ==
    LET accuracy == GetOr(latest_performance.accuracy, DefaultAccuracy)
        stored == GetOr(latest_performance.interval_index, 0)
    IN  IF accuracy >= AdvanceThreshold
        THEN Min(Len(spaced_repetition_intervals) - 1, stored + 1)
        ELSE IF accuracy > KeepThreshold
             THEN stored
             ELSE Max(0, stored - 1)

\* variant: regresses without the floor at 0
IntervalIndex_NoFloor(latest_performance) ==
    LET accuracy == GetOr(latest_performance.accuracy, DefaultAccuracy)
        stored == GetOr(latest_performance.interval_index, 0)
    IN  IF accuracy >= AdvanceThreshold
        THEN Min(Len(spaced_repetition_intervals) - 1, stored + 1)
        ELSE IF accuracy >= KeepThreshold
             THEN stored
             ELSE stored - 1

\* the branch of calculate_next_review that picks the table position
IntervalIndex(latest_performance) ==
    LET accuracy == GetOr(latest_performance.accuracy, DefaultAccuracy)
        stored == GetOr(latest_performance.interval_index, 0)
    IN  IF accuracy >= AdvanceThreshold
        THEN Min(Len(spaced_repetition_intervals) - 1, stored + 1)
        ELSE IF accuracy >= KeepThreshold
             THEN stored
             ELSE Max(0, stored - 1)

\* variant: no floor at one day
FinalInterval_NoFloor(interval_days, randomization) == interval_days + randomization

\* final_interval = max(1, interval_days + randomization)
FinalInterval(interval_days, randomization) == Max(1, interval_days + randomization)

\* variant: the randomization is applied on an empty history as well
calculate_next_review_JitterAlways(performance_history, t, r) ==
    IF performance_history = <<>>
    THEN [raised |-> "none", interval_index |-> Unassigned,
          interval_days |-> Unassigned, randomization |-> Unassigned,
          final_interval |-> Unassigned, value |-> t + Days(FinalInterval(1, r))]
    ELSE LET latest_performance == performance_history[Len(performance_history)]
             interval_index == IntervalIndex(latest_performance)
         IN  IF ~InRange(spaced_repetition_intervals, interval_index)
             THEN [raised |-> "IndexError", interval_index |-> interval_index,
                   interval_days |-> Unassigned, randomization |-> Unassigned,
                   final_interval |-> Unassigned, value |-> Unassigned]
             ELSE LET interval_days == ListItem(spaced_repetition_intervals, interval_index)
                      final_interval == FinalInterval(interval_days, r)
                  IN  [raised |-> "none", interval_index |-> interval_index,
                       interval_days |-> interval_days, randomization |-> r,
                       final_interval |-> final_interval,
                       value |-> t + Days(final_interval)]

\* calculate_next_review(card_id, performance_history) at time t with the
\* random draw r: the outcome of the call
calculate_next_review(performance_history, t, r) ==
    IF performance_history = <<>>
    THEN [raised |-> "none", interval_index |-> Unassigned,
          interval_days |-> Unassigned, randomization |-> Unassigned,
          final_interval |-> Unassigned, value |-> t + Days(1)]
    ELSE LET latest_performance == performance_history[Len(performance_history)]
             interval_index == IntervalIndex(latest_performance)
         IN  IF ~InRange(spaced_repetition_intervals, interval_index)
             THEN [raised |-> "IndexError", interval_index |-> interval_index,
                   interval_days |-> Unassigned, randomization |-> Unassigned,
                   final_interval |-> Unassigned, value |-> Unassigned]
             ELSE LET interval_days == ListItem(spaced_repetition_intervals, interval_index)
                      final_interval == FinalInterval(interval_days, r)
                  IN  [raised |-> "none", interval_index |-> interval_index,
                       interval_days |-> interval_days, randomization |-> r,
                       final_interval |-> final_interval,
                       value |-> t + Days(final_interval)]

\* variant: a card scheduled for this very instant is not yet due
IsDue_Strict(card, t) ==
    IF card.next_review # Missing
    THEN FromIsoFormat(card.next_review[1]) < t
    ELSE TRUE

\* whether one card passes the test of get_cards_due_for_review at time t
IsDue(card, t) ==
    IF card.next_review # Missing
    THEN FromIsoFormat(card.next_review[1]) <= t
    ELSE TRUE

\* get_cards_due_for_review(user_id, all_cards) at time t: the loop, in input order
RECURSIVE get_cards_due_for_review(_, _)
get_cards_due_for_review(all_cards, t) ==
    IF all_cards = <<>>
    THEN <<>>
    ELSE LET card == Head(all_cards)
             rest == get_cards_due_for_review(Tail(all_cards), t)
         IN  IF IsDue(card, t) THEN <<card>> \o rest ELSE rest

\* the hours of the sessions, each once, in the order first seen: the key
\* order of the defaultdict time_performance
RECURSIVE HoursSeen(_, _)
HoursSeen(historical_performance, seen) ==
    IF historical_performance = <<>>
    THEN seen
    ELSE LET hour == HourOf(FromIsoFormat(Head(historical_performance).date))
         IN  HoursSeen(Tail(historical_performance),
                       IF \E i \in 1..Len(seen) : seen[i] = hour
                       THEN seen ELSE Append(seen, hour))

\* time_performance[hour]: the accuracies recorded at that hour, in order
RECURSIVE AccuraciesAt(_, _)
AccuraciesAt(historical_performance, hour) ==
    IF historical_performance = <<>>
    THEN <<>>
    ELSE LET session == Head(historical_performance)
             rest == AccuraciesAt(Tail(historical_performance), hour)
         IN  IF HourOf(FromIsoFormat(session.date)) = hour
             THEN <<session.accuracy>> \o rest ELSE rest

RECURSIVE SumSeq(_)
SumSeq(list) == IF list = <<>> THEN 0 ELSE Head(list) + SumSeq(Tail(list))

\* the loop that finds the best performing hour; best_accuracy is kept as
\* the exact fraction best.sum / best.len, so avg_accuracy > best_accuracy
\* is a comparison of cross products
RECURSIVE BestHourLoop(_, _, _)
BestHourLoop(hours, historical_performance, best) ==
    IF hours = <<>>
    THEN best
    ELSE LET accuracies == AccuraciesAt(historical_performance, Head(hours))
             better == SumSeq(accuracies) * best.len > best.sum * Len(accuracies)
         IN  BestHourLoop(Tail(hours), historical_performance,
                          IF better
                          THEN [hour |-> Head(hours), sum |-> SumSeq(accuracies),
                                len |-> Len(accuracies)]
                          ELSE best)

DefaultBestHour == 9

BestHour(historical_performance) ==
    BestHourLoop(HoursSeen(historical_performance, <<>>), historical_performance,
                 [hour |-> DefaultBestHour, sum |-> 0, len |-> 1]).hour

\* sorted(list), ascending
RECURSIVE InsertSorted(_, _)
InsertSorted(list, x) ==
    IF list = <<>> THEN <<x>>
    ELSE IF x < Head(list) THEN <<x>> \o list
    ELSE <<Head(list)>> \o InsertSorted(Tail(list), x)

RECURSIVE Sorted(_)
Sorted(list) == IF list = <<>> THEN <<>> ELSE InsertSorted(Sorted(Tail(list)), Head(list))

\* int(np.median(durations)) of a non-empty list of non-negative integers
MedianInt(durations) ==
    LET s == Sorted(durations)
        n == Len(s)
    IN  IF n % 2 = 1 THEN s[(n + 1) \div 2]
        ELSE (s[n \div 2] + s[n \div 2 + 1]) \div 2

\* f"{best_hour:02d}:00" as the digits of HH and MM
FormatTime(hour) == <<hour \div 10, hour % 10, 0, 0>>

DefaultDuration == 30
DefaultConfidence == 50     \* 'confidence': 0.5, in hundredths
ConfidenceCap == 90         \* min(0.9, ...), in hundredths

RECURSIVE DurationsOf(_)
DurationsOf(historical_performance) ==
    IF historical_performance = <<>> THEN <<>>
    ELSE <<Head(historical_performance).duration>>
         \o DurationsOf(Tail(historical_performance))

\* variant: the confidence is not capped
suggest_optimal_study_time_NoCap(historical_performance) ==
    IF historical_performance = <<>>
    THEN [recommended_time |-> FormatTime(9),
          recommended_duration |-> DefaultDuration,
          confidence |-> DefaultConfidence,
          sessions |-> Unassigned]
    ELSE LET durations == DurationsOf(historical_performance)
         IN  [recommended_time |-> FormatTime(BestHour(historical_performance)),
              recommended_duration |->
                  IF durations # <<>> THEN MedianInt(durations) ELSE DefaultDuration,
              confidence |-> Len(historical_performance) * 10,
              sessions |-> Len(historical_performance)]

\* suggest_optimal_study_time(user_id, historical_performance); confidence
\* is in hundredths, so len / 10 is len * 10
suggest_optimal_study_time(historical_performance) ==
    IF historical_performance = <<>>
    THEN [recommended_time |-> FormatTime(9),
          recommended_duration |-> DefaultDuration,
          confidence |-> DefaultConfidence,
          sessions |-> Unassigned]
    ELSE LET durations == DurationsOf(historical_performance)
         IN  [recommended_time |-> FormatTime(BestHour(historical_performance)),
              recommended_duration |->
                  IF durations # <<>> THEN MedianInt(durations) ELSE DefaultDuration,
              confidence |-> Min(ConfidenceCap, Len(historical_performance) * 10),
              sessions |-> Len(historical_performance)]

(***************************************************************************)
(* FlashcardPersonalizer: values                                           *)
(***************************************************************************)
\* Python values that reach a comparison carry their type, so that ==
\* between a str and an Enum member is False as it is in Python.
Str(v) == [type |-> "str", value |-> v]

Member(v) == [type |-> "StudyMode", value |-> v]

None == [type |-> "NoneType", value |-> "None"]

\* class StudyMode(Enum): the values of its members
StudyModeValues == {"basic_educational", "exam_prep", "challenge", "fast_review",
                    "spaced_repetition"}

\* StudyMode(x) succeeds for a member and for the value of a member
IsValidStudyMode(x) ==
    \/ x.type = "StudyMode"
    \/ x.type = "str" /\ x.value \in StudyModeValues

\* StudyMode(x), where it succeeds
StudyMode(x) == Member(x.value)

\* x in list
In(x, list) == \E i \in 1..Len(list) : list[i] = x

HistoryLimit == 30          \* profile.performance_history[-30:]
WeakAreaLimit == 5          \* most_common(5)

\* variant: keeps the first n entries, dropping the newest
LastN_Oldest(list, n) ==
    IF Len(list) <= n THEN list ELSE SubSeq(list, 1, n)

\* list[-n:]
LastN(list, n) ==
    IF Len(list) <= n THEN list ELSE SubSeq(list, Len(list) - n + 1, Len(list))

\* get_user_profile: the profile created on first access
DefaultProfile(user_id) ==
    [user_id |-> user_id,
     preferred_modes |-> <<Member("basic_educational")>>,
     preferred_styles |-> <<"definition_based">>,
     difficulty_preference |-> "medium",
     study_time_preference |-> 30,
     performance_history |-> <<>>,
     learning_goals |-> <<>>,
     weak_areas |-> <<>>]

\* variant: every access stores a fresh default profile
WithProfile_AlwaysNew(profiles, user_id) ==
    [profiles EXCEPT ![user_id] = Some(DefaultProfile(user_id))]

\* self.user_profiles after get_user_profile(user_id)
WithProfile(profiles, user_id) ==
    IF profiles[user_id] = Missing
    THEN [profiles EXCEPT ![user_id] = Some(DefaultProfile(user_id))]
    ELSE profiles

\* session_data.get('responses', [])
ResponsesOf(session_data) == GetOr(session_data.responses, <<>>)

\* r.get('correct', False)
IsCorrect(response) == GetOr(response.correct, FALSE)

\* sum(1 for r in responses if r.get('correct', False))
RECURSIVE CorrectResponses(_)
CorrectResponses(responses) ==
    IF responses = <<>> THEN 0
    ELSE (IF IsCorrect(Head(responses)) THEN 1 ELSE 0) + CorrectResponses(Tail(responses))

\* accuracy = correct_responses / total_cards if total_cards > 0 else 0,
\* as the fraction <<numerator, denominator>>
Accuracy(responses) ==
    IF Len(responses) > 0 THEN <<CorrectResponses(responses), Len(responses)>>
    ELSE <<0, 1>>

\* accuracy > 0.8
IsHighPerformance(accuracy) == accuracy[1] * 10 > 8 * accuracy[2]

\* datetime.isoformat()
IsoFormat(dt) == [day |-> dt \div HoursPerDay, hour |-> dt % HoursPerDay]

\* the tags of the incorrect responses, concatenated in response order
RECURSIVE WeakTopics(_)
WeakTopics(responses) ==
    IF responses = <<>> THEN <<>>
    ELSE LET response == Head(responses)
             card_tags == GetOr(GetOr(response.card, [tags |-> Missing]).tags, <<>>)
         IN  (IF ~IsCorrect(response) THEN card_tags ELSE <<>>)
             \o WeakTopics(Tail(responses))

\* the keys of Counter(list): each element once, in the order first seen
RECURSIVE CounterKeys(_, _)
CounterKeys(list, seen) ==
    IF list = <<>> THEN seen
    ELSE CounterKeys(Tail(list),
                     IF In(Head(list), seen) THEN seen ELSE Append(seen, Head(list)))

CountOf(list, x) == Cardinality({i \in 1..Len(list) : list[i] = x})

RemoveAt(list, i) == SubSeq(list, 1, i - 1) \o SubSeq(list, i + 1, Len(list))

\* Counter(list).most_common(n): the n keys with the highest counts, highest
\* first, keys of equal count in the order first seen
RECURSIVE MostCommonKeys(_, _, _)
MostCommonKeys(keys, list, n) ==
    IF n = 0 \/ keys = <<>> THEN <<>>
    ELSE LET top == CHOOSE i \in 1..Len(keys) :
                        /\ \A j \in 1..Len(keys) : CountOf(list, keys[j]) <= CountOf(list, keys[i])
                        /\ \A j \in 1..(i - 1) : CountOf(list, keys[j]) < CountOf(list, keys[i])
         IN  <<keys[top]>> \o MostCommonKeys(RemoveAt(keys, top), list, n - 1)

\* variant: every key, whatever n
MostCommon_All(list, n) == MostCommonKeys(CounterKeys(list, <<>>), list, Len(list))

MostCommon(list, n) == MostCommonKeys(CounterKeys(list, <<>>), list, n)

\* the entry update_user_profile appends to performance_history
PerformanceEntry(session_data, t) ==
    [date |-> IsoFormat(t),
     mode |-> session_data.mode,
     accuracy |-> Accuracy(ResponsesOf(session_data)),
     total_cards |-> Len(ResponsesOf(session_data)),
     study_time |-> GetOr(session_data.study_time, 0)]

\* variant: the new mode is put in front of the list
AddPreferredMode_First(preferred_modes, mode) == <<StudyMode(mode)>> \o preferred_modes

\* profile.preferred_modes.append(StudyMode(session_data.get('mode')))
AddPreferredMode(preferred_modes, mode) == Append(preferred_modes, StudyMode(mode))

\* update_user_profile(user_id, session_data) on a profile at time t: the
\* profile the call leaves behind and the exception it ends with, if any.
\* StudyMode(...) raises ValueError after the entry was appended and the weak
\* areas were replaced, and before the history is cut to its last entries.
update_user_profile(profile, session_data, t) ==
    LET responses == ResponsesOf(session_data)
        accuracy == Accuracy(responses)
        appended == Append(profile.performance_history, PerformanceEntry(session_data, t))
        weak_areas == MostCommon(WeakTopics(responses), WeakAreaLimit)
        mode == session_data.mode
        adds == IsHighPerformance(accuracy) /\ ~In(mode, profile.preferred_modes)
    IN  IF adds /\ ~IsValidStudyMode(mode)
        THEN [raised |-> "ValueError",
              profile |-> [profile EXCEPT !.performance_history = appended,
                                          !.weak_areas = weak_areas]]
        ELSE [raised |-> "none",
              profile |-> [profile EXCEPT
                  !.performance_history = LastN(appended, HistoryLimit),
                  !.weak_areas = weak_areas,
                  !.preferred_modes = IF adds THEN AddPreferredMode(@, mode) ELSE @]]

(***************************************************************************)
(* FlashcardPersonalizer: sessions                                         *)
(*                                                                         *)
(* A text (front, back, a choice) is the sequence of its character codes.  *)
(* A card is a record of optional fields; a field the dict does not have   *)
(* is Missing.                                                             *)
(***************************************************************************)
\* "What question would have this answer: "
ReversePrefix ==
    <<87, 104, 97, 116, 32, 113, 117, 101, 115, 116, 105, 111, 110, 32,
    119, 111, 117, 108, 100, 32, 104, 97, 118, 101, 32, 116, 104, 105,
    115, 32, 97, 110, 115, 119, 101, 114, 58, 32>>

\* "..."
Ellipsis == <<46, 46, 46>>

\* "Alternative answer 1", "Alternative answer 2", "Alternative answer 3"
Distractors ==
    <<<<65, 108, 116, 101, 114, 110, 97, 116, 105, 118, 101, 32,
        97, 110, 115, 119, 101, 114, 32, 49>>,
      <<65, 108, 116, 101, 114, 110, 97, 116, 105, 118, 101, 32,
        97, 110, 115, 119, 101, 114, 32, 50>>,
      <<65, 108, 116, 101, 114, 110, 97, 116, 105, 118, 101, 32,
        97, 110, 115, 119, 101, 114, 32, 51>>>>

\* _initialize_mode_configurations: the bundle of each mode
mode_configurations(mode) ==
    CASE mode = Member("basic_educational") ->
            [time_per_card |-> 30, show_hints |-> TRUE, allow_retries |-> TRUE,
             feedback_detail |-> "comprehensive",
             card_styles |-> <<"definition_based", "cloze_deletion">>,
             ui_theme |-> "clean_minimal", flags |-> {}, algorithm |-> Missing]
      [] mode = Member("exam_prep") ->
            [time_per_card |-> 20, show_hints |-> FALSE, allow_retries |-> FALSE,
             feedback_detail |-> "immediate",
             card_styles |-> <<"multiple_choice", "scenario_based">>,
             ui_theme |-> "exam_focused",
             flags |-> {"include_timer", "track_accuracy"}, algorithm |-> Missing]
      [] mode = Member("challenge") ->
            [time_per_card |-> 15, show_hints |-> FALSE, allow_retries |-> FALSE,
             feedback_detail |-> "minimal",
             card_styles |-> <<"reverse_questioning", "cloze_deletion">>,
             ui_theme |-> "gamified",
             flags |-> {"scoring_system", "difficulty_progression"}, algorithm |-> Missing]
      [] mode = Member("fast_review") ->
            [time_per_card |-> 10, show_hints |-> FALSE, allow_retries |-> FALSE,
             feedback_detail |-> "none",
             card_styles |-> <<"definition_based">>,
             ui_theme |-> "minimalist",
             flags |-> {"auto_advance"}, algorithm |-> Missing]
      [] mode = Member("spaced_repetition") ->
            [time_per_card |-> 25, show_hints |-> TRUE, allow_retries |-> TRUE,
             feedback_detail |-> "adaptive",
             card_styles |-> <<"definition_based", "cloze_deletion">>,
             ui_theme |-> "spaced_rep",
             flags |-> {"track_intervals"}, algorithm |-> Some("sm2")]

\* variant: the first preferred mode wins over an explicit mode
ResolveMode_PreferredFirst(mode, profile) ==
    IF profile.preferred_modes # <<>>
    THEN profile.preferred_modes[1]
    ELSE IF mode = None THEN Member("basic_educational") ELSE mode

\* the mode create_personalized_session settles on
ResolveMode(mode, profile) ==
    IF mode = None
    THEN IF profile.preferred_modes # <<>>
         THEN profile.preferred_modes[1]
         ELSE Member("basic_educational")
    ELSE mode

\* random.shuffle(choices): choices rearranged by the permutation drawn
Shuffled(choices, perm) == [i \in 1..Len(choices) |-> choices[perm[i]]]

\* variant: converts a card that is multiple choice already as well
_convert_to_multiple_choice_Always(card, perm) ==
    LET correct_answer == GetOr(card.back, <<>>)
        choices == <<correct_answer>> \o Distractors
    IN  [card EXCEPT !.type = Some("multiple_choice"),
                     !.choices = Some(Shuffled(choices, perm)),
                     !.correct_answer = Some(correct_answer)]

\* _convert_to_multiple_choice(card), with the permutation the shuffle draws
_convert_to_multiple_choice(card, perm) ==
    IF card.type = Some("multiple_choice")
    THEN card
    ELSE LET correct_answer == GetOr(card.back, <<>>)
             choices == <<correct_answer>> \o Distractors
         IN  [card EXCEPT !.type = Some("multiple_choice"),
                          !.choices = Some(Shuffled(choices, perm)),
                          !.correct_answer = Some(correct_answer)]

\* variant: builds the question text but leaves the back as it was
_convert_to_reverse_questioning_NoSwap(card) ==
    LET original_back == GetOr(card.back, <<>>)
    IN  [card EXCEPT !.front = Some(ReversePrefix \o original_back),
                     !.type = Some("reverse_questioning")]

\* _convert_to_reverse_questioning(card)
_convert_to_reverse_questioning(card) ==
    LET original_front == GetOr(card.front, <<>>)
        original_back == GetOr(card.back, <<>>)
    IN  [card EXCEPT !.front = Some(ReversePrefix \o original_back),
                     !.back = Some(original_front),
                     !.type = Some("reverse_questioning")]

FrontLimit == 100    \* len(front) > 100
FrontKept == 97      \* card['front'][:97]
BackLimit == 150     \* len(back) > 150
BackKept == 147      \* card['back'][:147]

\* text[:n]
FirstN(text, n) == SubSeq(text, 1, Min(n, Len(text)))

\* variant: keeps as many characters as the limit and then adds the ellipsis
_simplify_for_fast_review_KeepLimit(card) ==
    LET front == IF Len(GetOr(card.front, <<>>)) > FrontLimit
                 THEN Some(FirstN(card.front[1], FrontLimit) \o Ellipsis)
                 ELSE card.front
        back == IF Len(GetOr(card.back, <<>>)) > BackLimit
                THEN Some(FirstN(card.back[1], BackLimit) \o Ellipsis)
                ELSE card.back
    IN  [card EXCEPT !.front = front, !.back = back, !.simplified = Some(TRUE)]

\* _simplify_for_fast_review(card)
_simplify_for_fast_review(card) ==
    LET front == IF Len(GetOr(card.front, <<>>)) > FrontLimit
                 THEN Some(FirstN(card.front[1], FrontKept) \o Ellipsis)
                 ELSE card.front
        back == IF Len(GetOr(card.back, <<>>)) > BackLimit
                THEN Some(FirstN(card.back[1], BackKept) \o Ellipsis)
                ELSE card.back
    IN  [card EXCEPT !.front = front, !.back = back, !.simplified = Some(TRUE)]

\* the style transformation of one card in the loop of _personalize_cards
Transformed(card, mode, perm) ==
    IF mode = Member("exam_prep") THEN _convert_to_multiple_choice(card, perm)
    ELSE IF mode = Member("challenge") THEN _convert_to_reverse_questioning(card)
    ELSE IF mode = Member("fast_review") THEN _simplify_for_fast_review(card)
    ELSE card

\* profile.weak_areas and any(area in card.get('tags', []) for area in profile.weak_areas)
InWeakArea(card, profile) ==
    /\ profile.weak_areas # <<>>
    /\ \E i \in 1..Len(profile.weak_areas) : In(profile.weak_areas[i], GetOr(card.tags, <<>>))

WeakAreaExtraTime == 10

\* variant: a weak-area card gets the extra time but keeps the mode's hints
PersonalizedCard_ModeHints(card, mode, profile, perm) ==
    LET mode_config == mode_configurations(mode)
        mode_settings == [time_limit |-> mode_config.time_per_card,
                          show_hints |-> mode_config.show_hints,
                          allow_retries |-> mode_config.allow_retries,
                          feedback_detail |-> mode_config.feedback_detail]
        personalized_card == [Transformed(card, mode, perm) EXCEPT
                                  !.mode_settings = Some(mode_settings)]
    IN  IF InWeakArea(card, profile)
        THEN [personalized_card EXCEPT
                 !.adjusted_difficulty = Some("easier"),
                 !.mode_settings = Some([mode_settings EXCEPT
                                            !.time_limit = @ + WeakAreaExtraTime])]
        ELSE personalized_card

\* the body of the loop of _personalize_cards for one card
PersonalizedCard(card, mode, profile, perm) ==
    LET mode_config == mode_configurations(mode)
        mode_settings == [time_limit |-> mode_config.time_per_card,
                          show_hints |-> mode_config.show_hints,
                          allow_retries |-> mode_config.allow_retries,
                          feedback_detail |-> mode_config.feedback_detail]
        personalized_card == [Transformed(card, mode, perm) EXCEPT
                                  !.mode_settings = Some(mode_settings)]
    IN  IF InWeakArea(card, profile)
        THEN [personalized_card EXCEPT
                 !.adjusted_difficulty = Some("easier"),
                 !.mode_settings = Some([mode_settings EXCEPT
                                            !.time_limit = @ + WeakAreaExtraTime,
                                            !.show_hints = TRUE])]
        ELSE personalized_card

\* list.sort(key = ...): the positions of the list in ascending key order,
\* positions of equal key in their original order
StableOrder(keys) ==
    [k \in 1..Len(keys) |->
        CHOOSE i \in 1..Len(keys) :
            Cardinality({j \in 1..Len(keys) :
                            keys[j] < keys[i] \/ (keys[j] = keys[i] /\ j < i)}) = k - 1]

\* list.sort(key = ...), and with reverse = True (which keeps the original
\* order of equal keys as well)
SortedBy(list, keys) == [k \in 1..Len(list) |-> list[StableOrder(keys)[k]]]

SortedByDescending(list, keys) ==
    SortedBy(list, [i \in 1..Len(keys) |-> 0 - keys[i]])

NewCardPriority == 999

\* (now - datetime.fromisoformat(last_reviewed)).days
DaysSince(last_reviewed, t) == (t - FromIsoFormat(last_reviewed)) \div HoursPerDay

\* the priority _apply_spaced_repetition_order gives a card
Priority(card, t) ==
    IF card.last_reviewed # Missing
    THEN DaysSince(card.last_reviewed[1], t)
    ELSE NewCardPriority

\* _apply_spaced_repetition_order(cards, profile) at time t
_apply_spaced_repetition_order(cards, t) ==
    LET prioritized == [i \in 1..Len(cards) |->
                           [cards[i] EXCEPT !.priority = Some(Priority(cards[i], t))]]
    IN  SortedByDescending(prioritized,
                           [i \in 1..Len(cards) |-> prioritized[i].priority[1]])

\* variant: an unrecognized difficulty ranks with the easy cards
DifficultyRank_UnknownEasy(card) ==
    LET difficulty == GetOr(card.difficulty, "medium")
    IN  CASE difficulty = "easy" -> 1
          [] difficulty = "medium" -> 2
          [] difficulty = "hard" -> 3
          [] OTHER -> 1

\* difficulty_order.get(x.get('difficulty', 'medium'), 2)
DifficultyRank(card) ==
    LET difficulty == GetOr(card.difficulty, "medium")
    IN  CASE difficulty = "easy" -> 1
          [] difficulty = "medium" -> 2
          [] difficulty = "hard" -> 3
          [] OTHER -> 2

\* _apply_difficulty_progression(cards)
_apply_difficulty_progression(cards) ==
    SortedBy(cards, [i \in 1..Len(cards) |-> DifficultyRank(cards[i])])

\* variant: fast review orders by difficulty as challenge does
Reordered_FastReviewSorted(personalized_cards, mode, t) ==
    IF mode = Member("spaced_repetition")
    THEN _apply_spaced_repetition_order(personalized_cards, t)
    ELSE IF mode = Member("challenge") \/ mode = Member("fast_review")
         THEN _apply_difficulty_progression(personalized_cards)
         ELSE personalized_cards

\* the reordering at the end of _personalize_cards
Reordered(personalized_cards, mode, t) ==
    IF mode = Member("spaced_repetition")
    THEN _apply_spaced_repetition_order(personalized_cards, t)
    ELSE IF mode = Member("challenge")
         THEN _apply_difficulty_progression(personalized_cards)
         ELSE personalized_cards

\* _personalize_cards(cards, mode, profile) at time t; shuffles[i] is the
\* permutation drawn for card i
_personalize_cards(cards, mode, profile, shuffles, t) ==
    Reordered([i \in 1..Len(cards) |->
                  PersonalizedCard(cards[i], mode, profile, shuffles[i])],
              mode, t)

\* variant: the loop writes to the caller's dict instead of a copy
CallerCardAfter_NoCopy(card, mode, profile, perm) ==
    PersonalizedCard(card, mode, profile, perm)

\* a caller's card after the loop of _personalize_cards: the writes of the
\* loop body go to card.copy(), and no nested value of the card is written
CallerCardAfter(card, mode, profile, perm) == card

\* the caller's list after create_personalized_session: the session's cards
\* are appended to, and sorted in, a list of their own
CallerCardsAfter(cards, mode, profile, shuffles) ==
    [i \in 1..Len(cards) |->
        CallerCardAfter(cards[i], ResolveMode(mode, profile), profile, shuffles[i])]

\* create_personalized_session(user_id, cards, mode) on a profile at time t:
\* the StudySession returned
create_personalized_session(user_id, cards, mode, profile, shuffles, t) ==
    LET resolved == ResolveMode(mode, profile)
    IN  [session_id |-> <<"session", user_id, t>>,
         user_id |-> user_id,
         mode |-> resolved,
         cards |-> _personalize_cards(cards, resolved, profile, shuffles, t),
         current_card_index |-> 0,
         start_time |-> t,
         responses |-> <<>>,
         settings |-> mode_configurations(resolved)]

(***************************************************************************)
(* LearningAnalytics: the study streak                                     *)
(*                                                                         *)
(* A session is the record of its date; a date() is a day number.          *)
(***************************************************************************)
\* datetime.date()
DateOf(t) == t \div HoursPerDay

\* the loop of _calculate_study_streak from position i of the sorted sessions
RECURSIVE StreakLoop(_, _, _, _)
StreakLoop(sorted_sessions, i, streak, current_date) ==
    IF i > Len(sorted_sessions) THEN streak
    ELSE LET session_date == DateOf(FromIsoFormat(sorted_sessions[i].date))
         IN  IF session_date = current_date \/ session_date = current_date - streak
             THEN StreakLoop(sorted_sessions, i + 1,
                             IF session_date = current_date - streak
                             THEN streak + 1 ELSE streak,
                             session_date)
             ELSE streak

\* _calculate_study_streak(sessions) at time t
_calculate_study_streak(sessions, t) ==
    IF sessions = <<>> THEN 0
    ELSE LET sorted_sessions ==
                 SortedByDescending(sessions,
                                    [i \in 1..Len(sessions) |->
                                        FromIsoFormat(sessions[i].date)])
         IN  StreakLoop(sorted_sessions, 1, 0, DateOf(t))

(***************************************************************************)
(* AIFlashcardEditor                                                       *)
(*                                                                         *)
(* An EditSession is a record; its contents map 'front' and 'back' to a    *)
(* text or Missing.  A suggestion is the record of its object identity     *)
(* id(s), its type and its suggested text.  A suggestion_id argument is a  *)
(* string: the decimal form of a number, or a text int() cannot parse.     *)
(***************************************************************************)
NumericId(n) == [kind |-> "numeric", value |-> n]
TextId == [kind |-> "text", value |-> 0]

\* str(id(s))
SuggestionIdOf(suggestion) == NumericId(suggestion.object_id)

\* start_edit_session(user_id, card_content): the EditSession stored
NewEditSession(session_id, user_id, card_content) ==
    [session_id |-> session_id,
     user_id |-> user_id,
     original_content |-> card_content,
     current_content |-> card_content,
     suggestions |-> <<>>,
     accepted_suggestions |-> <<>>,
     rejected_suggestions |-> <<>>]

\* session.current_content[field] = value
WithField(content, field, value) ==
    IF field = "front" THEN [content EXCEPT !.front = Some(value)]
    ELSE [content EXCEPT !.back = Some(value)]

\* the loop of apply_suggestion that looks the suggestion up: the position
\* found, 0 when none matches, and the ValueError of int(suggestion_id) on
\* the first comparison when the id is no number
FindSuggestion(suggestions, suggestion_id) ==
    IF suggestions = <<>> THEN Returned(0)
    ELSE IF suggestion_id.kind # "numeric" THEN Raised("ValueError")
    ELSE LET matches == {i \in 1..Len(suggestions) :
                            suggestions[i].object_id = suggestion_id.value}
         IN  Returned(IF matches = {} THEN 0
                      ELSE CHOOSE i \in matches : \A j \in matches : i <= j)

\* apply_suggestion on a stored session, for the suggestion found
Applied(session, suggestion, suggestion_id, accept) ==
    IF accept
    THEN LET field == IF suggestion.type = "cloze_conversion" THEN "front"
                      ELSE IF session.current_content.front # Missing THEN "front"
                      ELSE "back"
         IN  [session EXCEPT
                  !.current_content = WithField(@, field, suggestion.suggested_text),
                  !.accepted_suggestions = Append(@, suggestion_id)]
    ELSE [session EXCEPT !.rejected_suggestions = Append(@, suggestion_id)]

\* apply_suggestion(session_id, suggestion_id, accept): the sessions it
\* leaves behind and its outcome
apply_suggestion(sessions, session_id, suggestion_id, accept) ==
    IF session_id \notin DOMAIN sessions \/ sessions[session_id] = Missing
    THEN [sessions |-> sessions, ret |-> Returned(FALSE)]
    ELSE LET session == sessions[session_id][1]
             found == FindSuggestion(session.suggestions, suggestion_id)
         IN  IF found.raised # "none"
             THEN [sessions |-> sessions, ret |-> found]
             ELSE IF found.value = 0
             THEN [sessions |-> sessions, ret |-> Returned(FALSE)]
             ELSE [sessions |->
                       [sessions EXCEPT ![session_id] =
                           Some(Applied(session, session.suggestions[found.value],
                                        suggestion_id, accept))],
                   ret |-> Returned(TRUE)]

\* the 'pending_suggestions' of get_session_state: the ids of the suggestions
\* that are in neither list
PendingSuggestions(session) ==
    LET resolved == session.accepted_suggestions \o session.rejected_suggestions
    IN  SelectSeq([i \in 1..Len(session.suggestions) |->
                      SuggestionIdOf(session.suggestions[i])],
                  LAMBDA id : ~In(id, resolved))

\* the number of keys of final_content whose value differs from the original
TotalChanges(final_content, original_content) ==
    (IF final_content.front # Missing
        /\ final_content.front[1] # GetOr(original_content.front, "") THEN 1 ELSE 0)
    + (IF final_content.back # Missing
          /\ final_content.back[1] # GetOr(original_content.back, "") THEN 1 ELSE 0)

\* the dict end_session returns for a stored session
SessionSummary(session) ==
    [final_content |-> session.current_content,
     suggestions_accepted |-> Len(session.accepted_suggestions),
     suggestions_rejected |-> Len(session.rejected_suggestions),
     total_changes |-> TotalChanges(session.current_content, session.original_content)]

(***************************************************************************)
(* CommunityManager: deck ratings                                          *)
(*                                                                         *)
(* Table deck_ratings is the set of its rows; table shared_decks maps a    *)
(* deck id to its row, or to Missing when no such deck exists.  An average *)
(* is the pair <<sum, count>> of the exact fraction.                        *)
(***************************************************************************)
MinRating == 1      \* 1 <= rating
MaxRating == 5      \* rating <= 5

\* variant: the table has no UNIQUE(deck_id, user_id)
InsertOrReplace_NoUnique(rows, row) ==
    {r \in rows : r.rating_id # row.rating_id} \cup {row}

\* INSERT OR REPLACE INTO deck_ratings: the rows that clash with the new one
\* on the primary key or on UNIQUE(deck_id, user_id) are deleted first
InsertOrReplace(rows, row) ==
    {r \in rows : /\ r.rating_id # row.rating_id
                  /\ ~(r.deck_id = row.deck_id /\ r.user_id = row.user_id)}
    \cup {row}

\* the sum of the ratings of a set of rows
RECURSIVE SumRatings(_)
SumRatings(rows) ==
    IF rows = {} THEN 0
    ELSE LET r == CHOOSE x \in rows : TRUE
         IN  r.rating + SumRatings(rows \ {r})

\* SELECT AVG(rating), COUNT(rating) FROM deck_ratings WHERE deck_id = ?
DeckAggregate(rows, deck_id) ==
    LET of_deck == {r \in rows : r.deck_id = deck_id}
    IN  [rating_average |-> <<SumRatings(of_deck), Cardinality(of_deck)>>,
         rating_count |-> Cardinality(of_deck)]

\* rate_deck(deck_id, user_id, rating) with the uuid drawn for the row: the
\* two tables it leaves behind and what it returns
rate_deck(rows, decks, deck_id, user_id, rating, rating_id) ==
    IF ~(MinRating <= rating /\ rating <= MaxRating)
    THEN [ratings |-> rows, decks |-> decks, ret |-> FALSE]
    ELSE LET inserted == InsertOrReplace(rows, [rating_id |-> rating_id,
                                                deck_id |-> deck_id,
                                                user_id |-> user_id,
                                                rating |-> rating])
             aggregate == DeckAggregate(inserted, deck_id)
         IN  [ratings |-> inserted,
              decks |-> IF decks[deck_id] = Missing THEN decks
                        ELSE [decks EXCEPT ![deck_id] = Some(aggregate)],
              ret |-> TRUE]

(***************************************************************************)
(* UIThemeManager                                                          *)
(*                                                                         *)
(* A style bundle is a record of its sections; a section the bundle does   *)
(* not have is Missing.  'features' is the set of its flags set to True.   *)
(***************************************************************************)
Bundle(colors, fonts, layout, features) ==
    [colors |-> Some([primary |-> colors[1], background |-> colors[2],
                      text |-> colors[3], accent |-> colors[4]]),
     fonts |-> Some([primary |-> fonts[1], size |-> fonts[2]]),
     layout |-> Some([card_padding |-> layout[1], border_radius |-> layout[2],
                      shadow |-> layout[3]]),
     features |-> features]

\* self.themes as __init__ builds it
ThemeTable ==
    [theme_name \in {"clean_minimal", "exam_focused", "gamified", "minimalist"} |->
        CASE theme_name = "clean_minimal" ->
                Bundle(<<"#2563eb", "#ffffff", "#1f2937", "#10b981">>,
                       <<"Inter, sans-serif", "16px">>,
                       <<"2rem", "12px", "0 4px 6px -1px rgba(0, 0, 0, 0.1)">>,
                       Missing)
          [] theme_name = "exam_focused" ->
                Bundle(<<"#dc2626", "#fef2f2", "#1f2937", "#f59e0b">>,
                       <<"system-ui, sans-serif", "18px">>,
                       <<"1.5rem", "8px", "0 2px 4px rgba(0, 0, 0, 0.1)">>,
                       Some({"timer_visible", "progress_bar"}))
          [] theme_name = "gamified" ->
                Bundle(<<"#7c3aed", "#faf5ff", "#1f2937", "#06b6d4">>,
                       <<"Poppins, sans-serif", "16px">>,
                       <<"2rem", "16px", "0 8px 25px -5px rgba(0, 0, 0, 0.1)">>,
                       Some({"score_display", "streak_counter", "animations"}))
          [] theme_name = "minimalist" ->
                Bundle(<<"#374151", "#f9fafb", "#111827", "#6b7280">>,
                       <<"system-ui, sans-serif", "14px">>,
                       <<"1rem", "4px", "none">>,
                       Some({"minimal_ui", "auto_advance"}))]

\* variant: self.themes[theme_name], without a default
get_theme_config_NoDefault(table, theme_name) ==
    IF theme_name \in DOMAIN table
    THEN Returned(table[theme_name])
    ELSE Raised("KeyError")

\* get_theme_config(theme_name): self.themes.get(theme_name, self.themes["clean_minimal"])
get_theme_config(table, theme_name) ==
    IF theme_name \in DOMAIN table
    THEN Returned(table[theme_name])
    ELSE IF "clean_minimal" \in DOMAIN table
         THEN Returned(table["clean_minimal"])
         ELSE Raised("KeyError")

\* theme.get('features', {}).get(flag)
HasFeature(theme, flag) == theme.features # Missing /\ flag \in theme.features[1]

\* generate_css(theme_name): the values written into the style sheet and the
\* optional blocks appended to it
generate_css(table, theme_name) ==
    LET config == get_theme_config(table, theme_name)
        theme == config.value
    IN  IF config.raised # "none" THEN config
        ELSE IF theme.colors = Missing \/ theme.fonts = Missing \/ theme.layout = Missing
        THEN Raised("KeyError")
        ELSE Returned(
                [flashcard_container |->
                     [background_color |-> theme.colors[1].background,
                      color |-> theme.colors[1].text,
                      font_family |-> theme.fonts[1].primary,
                      font_size |-> theme.fonts[1].size],
                 flashcard |->
                     [padding |-> theme.layout[1].card_padding,
                      border_radius |-> theme.layout[1].border_radius,
                      box_shadow |-> theme.layout[1].shadow],
                 primary_button |->
                     [background_color |-> theme.colors[1].primary,
                      border_radius |-> theme.layout[1].border_radius,
                      font_family |-> theme.fonts[1].primary],
                 accent_element |-> [color |-> theme.colors[1].accent],
                 timer_display |-> HasFeature(theme, "timer_visible"),
                 score_display |-> HasFeature(theme, "score_display")])

(***************************************************************************)
(* Inputs of the scheduler                                                 *)
(***************************************************************************)
\* sequences over S of length 0..n
RECURSIVE SeqsUpTo(_, _)
SeqsUpTo(S, n) ==
    IF n = 0 THEN {<<>>}
    ELSE LET shorter == SeqsUpTo(S, n - 1)
         IN  shorter \cup {Append(q, x) : q \in {p \in shorter : Len(p) = n - 1}, x \in S}

AccuracyValues == {69, 70, 89, 90}

PerformanceRecords ==
    [accuracy : {Missing} \cup {Some(a) : a \in AccuracyValues},
     interval_index : {Missing} \cup {Some(i) : i \in 0..MaxIndex}]

\* timestamps before, at and after the times the clock shows
IsoStamps == {[day |-> 0, hour |-> 9], [day |-> 0, hour |-> 23],
              [day |-> 1, hour |-> 0], [day |-> 1, hour |-> 9]}

\* the records before the latest one, which calculate_next_review never reads
OlderRecords == {[accuracy |-> Some(90), interval_index |-> Some(1)],
                 [accuracy |-> Some(69), interval_index |-> Some(3)]}

\* performance_history: empty, or any latest record after up to
\* MaxHistory - 1 older ones
Histories ==
    {<<>>} \cup {Append(older, latest) : older \in SeqsUpTo(OlderRecords, MaxHistory - 1),
                                         latest \in PerformanceRecords}

Cards == [id : {"a", "b"}, next_review : {Missing} \cup {Some(s) : s \in IsoStamps}]

SessionRecords ==
    [date : IsoStamps \ {[day |-> 1, hour |-> 0]}, accuracy : {0, 50, 100}, duration : {10, 40}]

\* the sessions of a user with a routine: mornings and late evenings
RoutineSessions ==
    {[date |-> [day |-> 0, hour |-> 9], accuracy |-> 50, duration |-> 10],
     [date |-> [day |-> 0, hour |-> 23], accuracy |-> 100, duration |-> 40]}

\* historical_performance: short histories of any sessions, and long
\* histories of routine sessions
SessionHistories ==
    SeqsUpTo(SessionRecords, MaxSessions) \cup SeqsUpTo(RoutineSessions, MaxLongSessions)

(***************************************************************************)
(* Scheduler calls                                                         *)
(***************************************************************************)
\* a scheduler call is drawn when the run starts, is pending until the
\* scheduler runs it, and has returned (or raised) afterwards
NoCall == [op |-> "none", state |-> "none", at |-> Unassigned, arg |-> <<>>, ret |-> <<>>]

Pending(op, arg) ==
    [op |-> op, state |-> "pending", at |-> Unassigned, arg |-> arg, ret |-> <<>>]

PendingCalls ==
    {Pending("calculate_next_review", h) : h \in Histories}
    \cup {Pending("get_cards_due_for_review", c) : c \in SeqsUpTo(Cards, MaxCards)}
    \cup {Pending("suggest_optimal_study_time", h) : h \in SessionHistories}

CalculateNextReview ==
    /\ sched.op = "calculate_next_review" /\ sched.state = "pending"
    /\ \E r \in Randomization :
          sched' = [sched EXCEPT !.state = "returned", !.at = now,
                                 !.ret = calculate_next_review(sched.arg, now, r)]
    /\ UNCHANGED <<now, user_profiles, last_call, calls, raised_calls, recorded, study_session, theme_vars, analytics_vars, editor_vars,
                 community_vars>>

GetCardsDueForReview ==
    /\ sched.op = "get_cards_due_for_review" /\ sched.state = "pending"
    /\ sched' = [sched EXCEPT !.state = "returned", !.at = now,
                              !.ret = get_cards_due_for_review(sched.arg, now)]
    /\ UNCHANGED <<now, user_profiles, last_call, calls, raised_calls, recorded, study_session, theme_vars, analytics_vars, editor_vars,
                 community_vars>>

SuggestOptimalStudyTime ==
    /\ sched.op = "suggest_optimal_study_time" /\ sched.state = "pending"
    /\ sched' = [sched EXCEPT !.state = "returned", !.at = now,
                              !.ret = suggest_optimal_study_time(sched.arg)]
    /\ UNCHANGED <<now, user_profiles, last_call, calls, raised_calls, recorded, study_session, theme_vars, analytics_vars, editor_vars,
                 community_vars>>

\* the wall clock advances until the scheduler call has run
Tick ==
    /\ now < MaxNow
    /\ sched.state # "returned"
    /\ now' = now + 1
    /\ UNCHANGED <<sched, user_profiles, last_call, calls, raised_calls, recorded, study_session, theme_vars, analytics_vars, editor_vars,
                 community_vars>>

(***************************************************************************)
(* Inputs of the personalizer                                              *)
(***************************************************************************)
Users == {"u1", "u2"}

Right == [correct |-> Some(TRUE), card |-> Some([tags |-> Some(<<"algebra">>)])]

Wrong(tags) == [correct |-> Some(FALSE), card |-> Some([tags |-> Some(tags)])]

\* a response with neither 'correct' nor 'card'
Unmarked == [correct |-> Missing, card |-> Missing]

\* session_data['responses']: absent, empty, and lists whose accuracy is
\* 0, 1, exactly 0.8 and just above 0.8, and one whose incorrect responses
\* carry six different tags
ResponseLists ==
    {Missing, Some(<<>>), Some(<<Right>>), Some(<<Unmarked>>),
     Some(<<Right, Right, Right, Right, Wrong(<<"algebra">>)>>),
     Some(<<Right, Right, Right, Right, Right, Wrong(<<"geometry", "algebra">>)>>),
     Some(<<Wrong(<<"geometry">>), Wrong(<<"algebra", "geometry">>), Wrong(<<"algebra">>)>>),
     Some(<<Wrong(<<"history", "physics", "poetry">>),
            Wrong(<<"chemistry", "biology", "music", "poetry">>), Wrong(<<"music">>)>>)}

\* session_data.get('mode'): absent, the value of a member, a member, and a
\* string that is no member's value
ModeArgs == {None, Str("challenge"), Str("exam_prep"), Member("challenge"), Str("quiz")}

\* session_data: the empty dict, and every mode with every response list
Sessions ==
    {[mode |-> None, responses |-> Missing, study_time |-> Missing]}
    \cup [mode : ModeArgs, responses : ResponseLists, study_time : {Some(20)}]

\* the sessions of a long run: a plain low-accuracy session, and a
\* high-accuracy session that carries no mode
PlainSession ==
    [mode |-> Str("fast_review"), responses |-> Some(<<Wrong(<<"algebra">>)>>),
     study_time |-> Some(20)]

ModelessSession ==
    [mode |-> None, responses |-> Some(<<Right>>), study_time |-> Some(20)]

LongRunSessions == {PlainSession, ModelessSession}

\* a text of n characters, all different
Text(n, base) == [i \in 1..n |-> base + i]

\* a card dict with the keys a caller supplies
NewCard(id, front, back, tags, difficulty, last_reviewed) ==
    [id |-> id, front |-> front, back |-> back, type |-> Missing, tags |-> tags,
     difficulty |-> difficulty, last_reviewed |-> last_reviewed,
     choices |-> Missing, correct_answer |-> Missing, simplified |-> Missing,
     mode_settings |-> Missing, adjusted_difficulty |-> Missing, priority |-> Missing]

CardA ==
    NewCard("a", Some(Text(3, 1000)), Some(Text(4, 2000)), Some(<<"algebra">>),
            Some("hard"), Missing)

\* texts one character over the fast-review limits; reviewed 1000 days ago
CardB ==
    NewCard("b", Some(Text(101, 1000)), Some(Text(151, 2000)), Missing,
            Missing, Some([day |-> -1000, hour |-> 9]))

\* texts exactly at the fast-review limits; reviewed today
CardC ==
    NewCard("c", Some(Text(100, 1000)), Some(Text(150, 2000)),
            Some(<<"history", "geometry">>), Some("easy"), Some([day |-> 0, hour |-> 9]))

\* a difficulty that is none of easy, medium, hard; reviewed 3 days ago
CardD ==
    NewCard("d", Some(Text(3, 3000)), Some(Text(2, 4000)), Some(<<>>),
            Some("expert"), Some([day |-> -3, hour |-> 9]))

\* no front
CardE ==
    NewCard("e", Missing, Some(Text(2, 5000)), Some(<<"history">>),
            Some("medium"), Missing)

\* reviewed 3 days ago as well
CardF ==
    NewCard("f", Some(Text(2, 6000)), Some(Text(3, 7000)), Some(<<"geometry">>),
            Some("hard"), Some([day |-> -3, hour |-> 12]))

\* a card that is multiple choice already
CardM ==
    [NewCard("m", Some(Text(3, 8000)), Some(Text(2, 9000)), Some(<<"algebra">>),
             Some("easy"), Missing)
     EXCEPT !.type = Some("multiple_choice"),
            !.choices = Some(<<Text(2, 9000), Text(2, 9500)>>)]

DeckCards == {CardA, CardB, CardC, CardD, CardE, CardF}

ExamCards == {CardA, CardM}

\* the mode argument: None, or a member of StudyMode
SessionModes == {None} \cup {Member(v) : v \in StudyModeValues}

\* the card lists given to a session of a mode
Decks(mode) ==
    IF mode = Member("exam_prep")
    THEN SeqsUpTo(ExamCards, MaxExamDeck)
    ELSE SeqsUpTo(DeckCards, MaxDeck)

\* the orders random.shuffle can leave four choices in
ChoiceOrders == {p \in [1..4 -> 1..4] : \A i, j \in 1..4 : p[i] = p[j] => i = j}

\* the permutations drawn during one call: one for every card that
\* _convert_to_multiple_choice shuffles, in card order (the identity stands
\* for a card that draws none)
RECURSIVE ShuffleDraws(_, _)
ShuffleDraws(mode, cards) ==
    IF cards = <<>>
    THEN {<<>>}
    ELSE LET draws == IF mode = Member("exam_prep")
                         /\ Head(cards).type # Some("multiple_choice")
                      THEN ChoiceOrders
                      ELSE {[k \in 1..4 |-> k]}
         IN  {<<p>> \o rest : p \in draws, rest \in ShuffleDraws(mode, Tail(cards))}

\* the sessions that shape a profile before a study session is created:
\* one that adds a preferred mode and one that leaves two weak areas
ProfileSessions ==
    {[mode |-> Member("challenge"), responses |-> Some(<<Right>>), study_time |-> Some(20)],
     [mode |-> Str("fast_review"),
      responses |-> Some(<<Wrong(<<"geometry">>), Wrong(<<"algebra", "geometry">>)>>),
      study_time |-> Some(20)]}

\* the sessions completed in a run over both users: those that shape a
\* profile, a high-accuracy session of a mode given by value, and one that
\* carries no mode
ShapingSessions ==
    ProfileSessions \cup
    {[mode |-> Str("exam_prep"), responses |-> Some(<<Right>>), study_time |-> Some(20)],
     ModelessSession}

\* the card lists of such a run
SmallDecks == {<<>>, <<CardA, CardC>>, <<CardB, CardM>>}

\* one order random.shuffle can leave: the correct answer moved to the end
FirstChoiceLast == <<2, 3, 4, 1>>

(***************************************************************************)
(* FlashcardPersonalizer calls                                             *)
(***************************************************************************)
\* no session has been created yet
NoSession == [state |-> "none"]

NoPersonalizerCall ==
    [op |-> "none", user_id |-> "", session_data |-> <<>>, raised |-> "none",
     before |-> <<>>]

GetUserProfile(user_id) ==
    /\ user_profiles' = WithProfile(user_profiles, user_id)
    /\ last_call' = [op |-> "get_user_profile", user_id |-> user_id,
                     session_data |-> <<>>, raised |-> "none",
                     before |-> user_profiles]
    /\ UNCHANGED <<now, sched, calls, raised_calls, recorded, study_session, theme_vars, analytics_vars, editor_vars,
                 community_vars>>

UpdateUserProfile(user_id, session_data) ==
    LET profiles == WithProfile(user_profiles, user_id)
        out == update_user_profile(profiles[user_id][1], session_data, now)
    IN  /\ user_profiles' = [profiles EXCEPT ![user_id] = Some(out.profile)]
        /\ last_call' = [op |-> "update_user_profile", user_id |-> user_id,
                         session_data |-> session_data, raised |-> out.raised,
                         before |-> user_profiles]
        /\ calls' = calls + 1
        /\ raised_calls' = raised_calls + (IF out.raised = "none" THEN 0 ELSE 1)
        /\ recorded' = [recorded EXCEPT
                            ![user_id] = Append(@, PerformanceEntry(session_data, now))]
        /\ now' = now + 1      \* the next call reads a later clock
        /\ UNCHANGED <<sched, study_session, theme_vars, analytics_vars, editor_vars,
                 community_vars>>

CreatePersonalizedSession(user_id, cards, mode, shuffles) ==
    LET profiles == WithProfile(user_profiles, user_id)
        profile == profiles[user_id][1]
    IN  /\ user_profiles' = profiles
        /\ study_session' =
               [state |-> "created", user_id |-> user_id, cards |-> cards,
                mode |-> mode, profile |-> profile, at |-> now,
                caller_cards |-> CallerCardsAfter(cards, mode, profile, shuffles),
                value |-> create_personalized_session(user_id, cards, mode, profile,
                                                      shuffles, now)]
        /\ last_call' = [op |-> "create_personalized_session", user_id |-> user_id,
                         session_data |-> <<>>, raised |-> "none",
                         before |-> user_profiles]
        /\ now' = now + 1      \* the next call reads a later clock
        /\ UNCHANGED <<sched, calls, raised_calls, recorded, theme_vars, analytics_vars, editor_vars,
                 community_vars>>

(***************************************************************************)
(* Inputs of the editor and of the community database                      *)
(***************************************************************************)
\* the ids start_edit_session can hand out in a run
EditSessionIds == 1..MaxEditSessions

\* the session ids a caller may pass: those, and one never handed out
EditSessionArgs == EditSessionIds \cup {0}

\* the card contents an edit session starts from
CardContents == {[front |-> Some("question"), back |-> Some("answer")],
                 [front |-> Missing, back |-> Some("answer")]}

\* the suggestions one get_real_time_suggestions call can come back with:
\* cloze conversion only for the front, then simplification, then format
\* improvement, each only if its generator produced one
SuggestionLists(field_changed) ==
    {types \in SeqsUpTo({"cloze_conversion", "simplification", "format_improvement"}, 2) :
        /\ \A i, j \in 1..Len(types) :
               i < j => /\ types[i] # types[j]
                        /\ types[j] # "cloze_conversion"
                        /\ types[i] # "format_improvement"
        /\ field_changed # "front" => ~In("cloze_conversion", types)}

\* the suggestion ids a caller may pass: the decimal form of the identity of
\* a suggestion created in the run or of no suggestion, and a text that is
\* no number
SuggestionIdArgs == {NumericId(n) : n \in 1..(MaxSuggestions + 1)} \cup {TextId}

\* the ratings a caller may pass: inside, at the ends of and outside 1..5
RatingArgs == {0, 1, 3, 5, 6}

\* table shared_decks at start: deck "d1" is shared and not rated yet, no
\* deck "d2" exists
DeckIds == {"d1", "d2"}

InitialDecks ==
    [deck_id \in DeckIds |->
        IF deck_id = "d1"
        THEN Some([rating_average |-> <<0, 1>>, rating_count |-> 0])
        ELSE Missing]

(***************************************************************************)
(* UIThemeManager calls                                                    *)
(***************************************************************************)
\* theme names asked for: the defined ones, the ui_theme of the spaced
\* repetition mode, and names no theme has
ThemeNameArgs == DOMAIN ThemeTable \cup {"spaced_rep", "", "Gamified", "dark"}

InitThemes ==
    /\ themes = ThemeTable
    /\ theme_log = <<>>

GetThemeConfig(theme_name) ==
    /\ theme_log' = Append(theme_log,
                           [op |-> "get_theme_config", theme_name |-> theme_name,
                            ret |-> get_theme_config(themes, theme_name)])
    /\ UNCHANGED <<themes, core_vars, analytics_vars, editor_vars, community_vars>>

GenerateCss(theme_name) ==
    /\ theme_log' = Append(theme_log,
                           [op |-> "generate_css", theme_name |-> theme_name,
                            ret |-> generate_css(themes, theme_name)])
    /\ UNCHANGED <<themes, core_vars, analytics_vars, editor_vars, community_vars>>

(***************************************************************************)
(* LearningAnalytics calls                                                 *)
(***************************************************************************)
NoStreakCall == [state |-> "none", sessions |-> <<>>, at |-> -1, ret |-> -1]

\* the dates of the recorded sessions: today (twice), the three days before
\* and the fifth day before
StreakDates ==
    {[day |-> 0, hour |-> 9], [day |-> 0, hour |-> 20], [day |-> -1, hour |-> 21],
     [day |-> -2, hour |-> 8], [day |-> -3, hour |-> 12], [day |-> -5, hour |-> 12]}

\* a _calculate_study_streak call that has not run yet
PendingStreakCalls ==
    {[state |-> "pending", sessions |-> sessions, at |-> -1, ret |-> -1] :
        sessions \in SeqsUpTo({[date |-> d] : d \in StreakDates}, MaxStreakSessions)}

CalculateStudyStreak ==
    /\ streak_call.state = "pending"
    /\ streak_call' = [streak_call EXCEPT
                           !.state = "returned",
                           !.at = now,
                           !.ret = _calculate_study_streak(streak_call.sessions, now)]
    /\ UNCHANGED <<core_vars, theme_vars, editor_vars, community_vars>>

InitAnalytics == streak_call = NoStreakCall

(***************************************************************************)
(* AIFlashcardEditor calls                                                 *)
(***************************************************************************)
NoEditorCall ==
    [op |-> "none", session_id |-> 0, suggestion_id |-> TextId, accept |-> FALSE,
     ret |-> Returned(FALSE), generated |-> 0, before |-> <<>>]

EditorCall(op, session_id, ret) ==
    [op |-> op, session_id |-> session_id, suggestion_id |-> TextId, accept |-> FALSE,
     ret |-> ret, generated |-> 0, before |-> active_sessions]

\* whether a session of that id is stored
IsActive(session_id) ==
    session_id \in DOMAIN active_sessions /\ active_sessions[session_id] # Missing

StartEditSession(user_id, card_content) ==
    LET session_id == editor_fresh.sessions + 1
    IN  /\ session_id \in EditSessionIds
        /\ active_sessions' = [active_sessions EXCEPT ![session_id] =
                                  Some(NewEditSession(session_id, user_id, card_content))]
        /\ editor_fresh' = [editor_fresh EXCEPT !.sessions = session_id]
        /\ editor_call' = EditorCall("start_edit_session", session_id, Returned(session_id))
        /\ UNCHANGED <<core_vars, theme_vars, analytics_vars, community_vars>>

\* get_real_time_suggestions(session_id, field_changed, new_value); types is
\* the list of suggestions the generators came back with
GetRealTimeSuggestions(session_id, field_changed, new_value, types) ==
    IF ~IsActive(session_id)
    THEN /\ editor_call' = EditorCall("get_real_time_suggestions", session_id, Returned(<<>>))
         /\ UNCHANGED <<active_sessions, editor_fresh>>
         /\ UNCHANGED <<core_vars, theme_vars, analytics_vars, community_vars>>
    ELSE LET suggestions ==
                 [i \in 1..Len(types) |->
                     [object_id |-> editor_fresh.suggestions + i,
                      type |-> types[i],
                      suggested_text |-> "suggested"]]
         IN  /\ active_sessions' =
                    [active_sessions EXCEPT ![session_id] =
                        Some([@[1] EXCEPT
                                 !.current_content = WithField(@, field_changed, new_value),
                                 !.suggestions = @ \o suggestions])]
             /\ editor_fresh' = [editor_fresh EXCEPT !.suggestions = @ + Len(types)]
             /\ editor_call' = EditorCall("get_real_time_suggestions", session_id,
                                          Returned(suggestions))
             /\ UNCHANGED <<core_vars, theme_vars, analytics_vars, community_vars>>

ApplySuggestion(session_id, suggestion_id, accept) ==
    LET out == apply_suggestion(active_sessions, session_id, suggestion_id, accept)
    IN  /\ active_sessions' = out.sessions
        /\ editor_fresh' = [editor_fresh EXCEPT !.applies = @ + 1]
        /\ editor_call' = [EditorCall("apply_suggestion", session_id, out.ret) EXCEPT
                               !.suggestion_id = suggestion_id, !.accept = accept]
        /\ UNCHANGED <<core_vars, theme_vars, analytics_vars, community_vars>>

GetSessionState(session_id) ==
    /\ editor_call' =
           EditorCall("get_session_state", session_id,
                      IF ~IsActive(session_id) THEN Returned(<<>>)
                      ELSE LET session == active_sessions[session_id][1]
                           IN  Returned(<<[session_id |-> session.session_id,
                                           current_content |-> session.current_content,
                                           pending_suggestions |-> PendingSuggestions(session),
                                           changes_made |-> session.current_content
                                                              # session.original_content]>>))
    /\ UNCHANGED <<active_sessions, editor_fresh>>
    /\ UNCHANGED <<core_vars, theme_vars, analytics_vars, community_vars>>

EndSession(session_id) ==
    IF ~IsActive(session_id)
    THEN /\ editor_call' = EditorCall("end_session", session_id, Returned(<<>>))
         /\ UNCHANGED <<active_sessions, editor_fresh>>
         /\ UNCHANGED <<core_vars, theme_vars, analytics_vars, community_vars>>
    ELSE LET session == active_sessions[session_id][1]
         IN  /\ active_sessions' = [active_sessions EXCEPT ![session_id] = Missing]
             /\ editor_call' =
                    [EditorCall("end_session", session_id,
                                Returned(<<SessionSummary(session)>>))
                     EXCEPT !.generated = Len(session.suggestions)]
             /\ UNCHANGED editor_fresh
             /\ UNCHANGED <<core_vars, theme_vars, analytics_vars, community_vars>>

InitEditor ==
    /\ active_sessions = [session_id \in EditSessionIds |-> Missing]
    /\ editor_fresh = [sessions |-> 0, suggestions |-> 0, applies |-> 0]
    /\ editor_call = NoEditorCall

(***************************************************************************)
(* CommunityManager calls                                                  *)
(***************************************************************************)
NoRatingCall ==
    [op |-> "none", deck_id |-> "", user_id |-> "", rating |-> 0, ret |-> FALSE,
     made |-> 0, before |-> [ratings |-> {}, decks |-> InitialDecks]]

\* rate_deck(deck_id, user_id, rating); the uuid of the row is one no earlier
\* row has
RateDeck(deck_id, user_id, rating) ==
    LET rating_id == rating_call.made + 1
        out == rate_deck(deck_ratings, shared_decks, deck_id, user_id, rating, rating_id)
    IN  /\ deck_ratings' = out.ratings
        /\ shared_decks' = out.decks
        /\ rating_call' = [op |-> "rate_deck", deck_id |-> deck_id, user_id |-> user_id,
                           rating |-> rating, ret |-> out.ret, made |-> rating_id,
                           before |-> [ratings |-> deck_ratings, decks |-> shared_decks]]
        /\ UNCHANGED <<core_vars, theme_vars, analytics_vars, editor_vars>>

InitCommunity ==
    /\ deck_ratings = {}
    /\ shared_decks = InitialDecks
    /\ rating_call = NoRatingCall

(***************************************************************************)
(* Specifications                                                          *)
(***************************************************************************)
Init ==
    /\ now = StartNow
    /\ sched = NoCall
    /\ user_profiles = [u \in Users |-> Missing]
    /\ last_call = NoPersonalizerCall
    /\ calls = 0
    /\ raised_calls = 0
    /\ recorded = [u \in Users |-> <<>>]
    /\ study_session = NoSession
    /\ InitThemes
    /\ InitAnalytics
    /\ InitEditor
    /\ InitCommunity

\* the personalizer under varied sessions
UpdateAny ==
    /\ calls < MaxCalls
    /\ \E user_id \in Users, session_data \in Sessions :
           UpdateUserProfile(user_id, session_data)

GetAny == \E user_id \in Users : GetUserProfile(user_id)

Next == UpdateAny \/ GetAny

Spec == Init /\ [][Next]_vars

\* the personalizer under sessions whose responses carry tagged cards, with
\* a mode that is absent or given
WeakAreaSessions ==
    [mode : {None, Str("challenge")}, responses : ResponseLists, study_time : {Some(20)}]

UpdateWeakAreas ==
    /\ calls < MaxWeakCalls
    /\ \E user_id \in Users, session_data \in WeakAreaSessions :
           UpdateUserProfile(user_id, session_data)

NextWeakAreas == UpdateWeakAreas \/ GetAny

SpecWeakAreas == Init /\ [][NextWeakAreas]_vars

\* the personalizer over a long run of sessions of one user
UpdateLongRun ==
    /\ calls < MaxLongCalls
    /\ \E session_data \in LongRunSessions :
           /\ UpdateUserProfile("u1", session_data)
           /\ raised_calls' <= MaxRaises

NextLongRun == UpdateLongRun

SpecLongRun == Init /\ [][NextLongRun]_vars

\* the personalizer creating a study session, after the sessions that shaped
\* the profile of one user
UpdateBeforeSession ==
    /\ study_session.state = "none"
    /\ calls < MaxSessionCalls
    /\ \E session_data \in ProfileSessions : UpdateUserProfile("u1", session_data)

CreateAny ==
    /\ study_session.state = "none"
    /\ \E user_id \in Users, mode \in SessionModes :
          LET resolved == ResolveMode(mode, WithProfile(user_profiles, user_id)[user_id][1])
          IN  \E cards \in Decks(resolved) :
                  \E shuffles \in ShuffleDraws(resolved, cards) :
                      CreatePersonalizedSession(user_id, cards, mode, shuffles)

NextSession == UpdateBeforeSession \/ CreateAny

SpecSession == Init /\ [][NextSession]_vars

\* the personalizer serving both users: profile reads, updates and one
\* session creation, in any order
UpdateShaping ==
    /\ calls < MaxProfileSteps
    /\ \E user_id \in Users, session_data \in ShapingSessions :
           UpdateUserProfile(user_id, session_data)

CreateSmall ==
    /\ study_session.state = "none"
    /\ \E user_id \in Users, mode \in SessionModes, cards \in SmallDecks :
           CreatePersonalizedSession(user_id, cards, mode,
                                     [i \in 1..Len(cards) |-> FirstChoiceLast])

NextProfiles == GetAny \/ UpdateShaping \/ CreateSmall

SpecProfiles == Init /\ [][NextProfiles]_vars

\* the theme manager
GetAnyTheme ==
    /\ Len(theme_log) < MaxThemeCalls
    /\ \E theme_name \in ThemeNameArgs : GetThemeConfig(theme_name)

GenerateAnyCss ==
    /\ Len(theme_log) < MaxThemeCalls
    /\ \E theme_name \in ThemeNameArgs : GenerateCss(theme_name)

NextTheme == GetAnyTheme \/ GenerateAnyCss

SpecTheme == Init /\ [][NextTheme]_vars

\* the analytics engine: one _calculate_study_streak call on any session list
InitStreak ==
    /\ now = StartNow
    /\ sched = NoCall
    /\ user_profiles = [u \in Users |-> Missing]
    /\ last_call = NoPersonalizerCall
    /\ calls = 0
    /\ raised_calls = 0
    /\ recorded = [u \in Users |-> <<>>]
    /\ study_session = NoSession
    /\ InitThemes
    /\ streak_call \in PendingStreakCalls
    /\ InitEditor
    /\ InitCommunity

NextStreak == CalculateStudyStreak

SpecStreak == InitStreak /\ [][NextStreak]_vars

\* the editor
StartAnyEditSession ==
    \E card_content \in CardContents : StartEditSession("u1", card_content)

GetAnySuggestions ==
    \E session_id \in EditSessionArgs, field_changed \in {"front", "back"} :
        \E types \in SuggestionLists(field_changed) :
            /\ editor_fresh.suggestions + Len(types) <= MaxSuggestions
            /\ GetRealTimeSuggestions(session_id, field_changed, "typed", types)

ApplyAnySuggestion ==
    /\ editor_fresh.applies < MaxApplies
    /\ \E session_id \in EditSessionArgs, suggestion_id \in SuggestionIdArgs,
          accept \in BOOLEAN :
           ApplySuggestion(session_id, suggestion_id, accept)

GetAnySessionState == \E session_id \in EditSessionArgs : GetSessionState(session_id)

EndAnySession == \E session_id \in EditSessionArgs : EndSession(session_id)

NextEditor ==
    \/ StartAnyEditSession
    \/ GetAnySuggestions
    \/ ApplyAnySuggestion
    \/ GetAnySessionState
    \/ EndAnySession

SpecEditor == Init /\ [][NextEditor]_vars

\* the community database under rate_deck calls
RateAnyDeck ==
    /\ rating_call.made < MaxRatings
    /\ \E deck_id \in DeckIds, user_id \in Users, rating \in RatingArgs :
           RateDeck(deck_id, user_id, rating)

NextCommunity == RateAnyDeck

SpecCommunity == Init /\ [][NextCommunity]_vars

\* the scheduler
NextScheduler ==
    CalculateNextReview \/ GetCardsDueForReview \/ SuggestOptimalStudyTime \/ Tick

InitScheduler ==
    /\ now = StartNow
    /\ sched \in PendingCalls
    /\ user_profiles = [u \in Users |-> Missing]
    /\ last_call = NoPersonalizerCall
    /\ calls = 0
    /\ raised_calls = 0
    /\ recorded = [u \in Users |-> <<>>]
    /\ study_session = NoSession
    /\ InitThemes
    /\ InitAnalytics
    /\ InitEditor
    /\ InitCommunity

SpecScheduler == InitScheduler /\ [][NextScheduler]_vars

(***************************************************************************)
(* Properties of the scheduler (under SpecScheduler)                       *)
(***************************************************************************)
\* calculate_next_review has run on a non-empty history
CalcOnHistory ==
    /\ sched.op = "calculate_next_review"
    /\ sched.state = "returned"
    /\ sched.arg # <<>>

\* the latest record of that history
LatestRecord == sched.arg[Len(sched.arg)]

\* its accuracy in percent, or -1 when the record carries none
LatestAccuracy == IF LatestRecord.accuracy = Missing THEN -1 ELSE LatestRecord.accuracy[1]

\* its interval_index, 0 when the record carries none
LatestIndex == IF LatestRecord.interval_index = Missing THEN 0 ELSE LatestRecord.interval_index[1]

\* C2: for every non-empty history, whatever interval_index >= 0 the latest
\* record stores and whatever its accuracy, the position read from the
\* interval table lies in 0..5 and the call returns a date instead of raising.
C2_IndexAlwaysInTable ==
    CalcOnHistory =>
        /\ sched.ret.raised = "none"
        /\ sched.ret.interval_index \in 0..5

\* C3: when the latest accuracy is >= 0.90 and the stored index is i, the
\* index used is min(i + 1, 5): one step forward, and the last position
\* (90 days) once the end of the table is reached.
C3_HighAccuracyAdvances ==
    (CalcOnHistory /\ LatestAccuracy >= 90) =>
        /\ sched.ret.raised = "none"
        /\ sched.ret.interval_index = (IF LatestIndex + 1 > 5 THEN 5 ELSE LatestIndex + 1)
        /\ LatestIndex >= 4 => sched.ret.interval_days = 90

C3_Witness ==
    /\ CalcOnHistory
    /\ LatestAccuracy = 90
    /\ LatestRecord.interval_index = Some(5)
    /\ sched.ret.interval_index = 5
    /\ sched.ret.interval_days = 90

\* C4: when the latest accuracy is < 0.70 and the stored index is i, the
\* index used is max(0, i - 1); i = 0 stays at index 0, the 1-day interval.
C4_LowAccuracyRegresses ==
    (CalcOnHistory /\ LatestRecord.accuracy # Missing /\ LatestAccuracy < 70) =>
        /\ sched.ret.interval_index = (IF LatestIndex - 1 < 0 THEN 0 ELSE LatestIndex - 1)
        /\ LatestIndex = 0 => (sched.ret.raised = "none" /\ sched.ret.interval_days = 1)

C4_Witness ==
    /\ CalcOnHistory
    /\ LatestAccuracy = 69
    /\ LatestRecord.interval_index = Some(0)
    /\ sched.ret.interval_index = 0
    /\ sched.ret.interval_days = 1

\* C5: when the latest accuracy a satisfies 0.70 <= a < 0.90 the stored index
\* is used unchanged (0.70 keeps it, 0.90 does not), and the base interval is
\* the entry of 1, 3, 7, 14, 30, 90 at that index.
C5_MidAccuracyKeeps ==
    /\ (CalcOnHistory /\ LatestAccuracy >= 70 /\ LatestAccuracy < 90) =>
          /\ sched.ret.interval_index = LatestIndex
          /\ sched.ret.raised = "none" =>
                sched.ret.interval_days = <<1, 3, 7, 14, 30, 90>>[LatestIndex + 1]
    /\ (CalcOnHistory /\ LatestAccuracy = 90 /\ LatestIndex < 5) =>
          sched.ret.interval_index # LatestIndex

C5_Witness ==
    /\ CalcOnHistory
    /\ LatestAccuracy = 70
    /\ LatestRecord.interval_index = Some(2)
    /\ sched.ret.interval_index = 2
    /\ sched.ret.interval_days = 7

\* C6: with base interval d, the delay added to the current time is one of
\* d - 1, d, d + 1 days and at least 1 day; for d = 1 it is 1 or 2 days.
C6_JitterWithinOneDay ==
    (CalcOnHistory /\ sched.ret.raised = "none") =>
        LET d == sched.ret.interval_days
        IN  /\ \E k \in {d - 1, d, d + 1} :
                  k >= 1 /\ sched.ret.value = sched.at + k * 24
            /\ d = 1 => sched.ret.value \in {sched.at + 24, sched.at + 48}

C6_Witness ==
    /\ CalcOnHistory
    /\ sched.ret.raised = "none"
    /\ sched.ret.interval_days = 1
    /\ sched.ret.randomization = -1
    /\ sched.ret.value = sched.at + 24

\* C7: on an empty history calculate_next_review returns the current time
\* plus exactly 1 day, and suggest_optimal_study_time returns "09:00", a
\* duration of 30 and confidence 0.5.
C7_EmptyHistoryDefaults ==
    /\ (sched.op = "calculate_next_review" /\ sched.state = "returned" /\ sched.arg = <<>>) =>
          (sched.ret.raised = "none" /\ sched.ret.value = sched.at + 24)
    /\ (sched.op = "suggest_optimal_study_time" /\ sched.state = "returned"
        /\ sched.arg = <<>>) =>
          /\ sched.ret.recommended_time = <<0, 9, 0, 0>>
          /\ sched.ret.recommended_duration = 30
          /\ sched.ret.confidence = 50

C7_Witness ==
    /\ sched.op = "suggest_optimal_study_time"
    /\ sched.state = "returned"
    /\ sched.arg = <<>>
    /\ sched.ret.recommended_time = <<0, 9, 0, 0>>
    /\ sched.ret.confidence = 50

\* C8: get_cards_due_for_review returns exactly the input cards that have no
\* next_review or whose next_review is at or before the current time, each
\* once and in input order; a card whose next_review is later is not returned.
C8_DueCardsExactly ==
    (sched.op = "get_cards_due_for_review" /\ sched.state = "returned") =>
        LET cards == sched.arg
            due == {i \in 1..Len(cards) :
                       \/ cards[i].next_review = Missing
                       \/ cards[i].next_review[1].day * 24 + cards[i].next_review[1].hour
                              <= sched.at}
            nth(k) == CHOOSE i \in due : Cardinality({j \in due : j < i}) = k - 1
        IN  /\ Len(sched.ret) = Cardinality(due)
            /\ \A k \in 1..Len(sched.ret) : sched.ret[k] = cards[nth(k)]

C8_Witness ==
    /\ sched.op = "get_cards_due_for_review"
    /\ sched.state = "returned"
    /\ Len(sched.arg) = 3
    /\ sched.arg[1].next_review # Missing
    /\ FromIsoFormat(sched.arg[1].next_review[1]) > sched.at
    /\ sched.arg[2].next_review = Missing
    /\ sched.arg[3].next_review # Missing
    /\ FromIsoFormat(sched.arg[3].next_review[1]) = sched.at
    /\ sched.ret = <<sched.arg[2], sched.arg[3]>>

\* suggest_optimal_study_time has run on a non-empty history
SuggestOnHistory ==
    /\ sched.op = "suggest_optimal_study_time"
    /\ sched.state = "returned"
    /\ sched.arg # <<>>

\* C12: for a non-empty history the recommended hour occurs in the history
\* and its sessions have the highest mean accuracy of all hours; among hours
\* that tie at the maximum the one seen first is chosen. This covers
\* histories in which every accuracy is 0.
C12_BestHourFromHistory ==
    SuggestOnHistory =>
        LET h == sched.arg
            n == Len(h)
            hourAt(i) == (h[i].date.day * 24 + h[i].date.hour) % 24
            hours == {hourAt(i) : i \in 1..n}
            total(g) == LET acc[i \in 0..n] ==
                                IF i = 0 THEN 0
                                ELSE acc[i - 1] + (IF hourAt(i) = g THEN h[i].accuracy ELSE 0)
                        IN  acc[n]
            count(g) == Cardinality({i \in 1..n : hourAt(i) = g})
            first(g) == CHOOSE i \in 1..n : hourAt(i) = g /\ \A j \in 1..(i - 1) : hourAt(j) # g
            best == sched.ret.recommended_time[1] * 10 + sched.ret.recommended_time[2]
        IN  /\ best \in hours
            /\ \A g \in hours :
                  /\ total(g) * count(best) <= total(best) * count(g)
                  /\ total(g) * count(best) = total(best) * count(g) => first(best) <= first(g)

\* C13: for a non-empty history of n sessions the confidence is
\* min(0.9, n / 10): 0.1 per session, and 0.9 for every n >= 9.
C13_ConfidenceLinearCapped ==
    SuggestOnHistory =>
        LET n == Len(sched.arg)
        IN  sched.ret.confidence = (IF n >= 9 THEN 90 ELSE 10 * n)

C13_Witness ==
    /\ SuggestOnHistory
    /\ Len(sched.arg) = 10
    /\ sched.ret.confidence = 90

(***************************************************************************)
(* Properties of the profile                                               *)
(***************************************************************************)
\* C1 (under SpecLongRun): every user's performance_history has at most 30
\* entries in every reachable state, also after a call that raised.
C1_HistoryAtMostThirty ==
    \A u \in Users :
        user_profiles[u] # Missing => Len(user_profiles[u][1].performance_history) <= 30

\* C11 (under SpecLongRun): after each update_user_profile call that returns,
\* performance_history is the most recent min(n, 30) of the n entries
\* recorded so far, in recording order with the newest last; the 31st entry
\* evicts the oldest.
C11_HistoryIsMostRecentThirty ==
    \A u \in Users :
        (last_call.op = "update_user_profile" /\ last_call.user_id = u
         /\ last_call.raised = "none") =>
            LET history == user_profiles[u][1].performance_history
                n == Len(recorded[u])
                kept == IF n < 30 THEN n ELSE 30
            IN  /\ Len(history) = kept
                /\ \A i \in 1..kept : history[i] = recorded[u][n - kept + i]

C11_Witness ==
    /\ last_call.op = "update_user_profile"
    /\ last_call.raised = "none"
    /\ Len(recorded["u1"]) = 31
    /\ Len(user_profiles["u1"][1].performance_history) = 30
    /\ user_profiles["u1"][1].performance_history[1] = recorded["u1"][2]
    /\ user_profiles["u1"][1].performance_history[30] = recorded["u1"][31]

\* C9 (under Spec): after any sequence of update_user_profile calls,
\* preferred_modes contains no study mode more than once.
C9_NoDuplicateModes ==
    \A u \in Users :
        user_profiles[u] # Missing =>
            LET modes == user_profiles[u][1].preferred_modes
            IN  \A i, j \in 1..Len(modes) : i # j => modes[i] # modes[j]

\* C10 (under Spec): update_user_profile completes without raising for every
\* session_data, whatever its accuracy and whether or not it carries a mode.
C10_UpdateNeverRaises ==
    last_call.op = "update_user_profile" => last_call.raised = "none"

(***************************************************************************)
(* Properties of the study session                                         *)
(***************************************************************************)
\* a session has been created; the call's arguments and the profile it read
\* are kept next to the StudySession it returned
SessionCreated == study_session.state = "created"

\* the one-to-one maps of the positions 1..n
Bijections(n) == {p \in [1..n -> 1..n] : \A i, j \in 1..n : p[i] = p[j] => i = j}

\* C14 (under SpecSession): the session's mode is the explicitly passed mode
\* when one is given, otherwise the first entry of preferred_modes, otherwise
\* basic-educational when preferred_modes is empty; the session's settings
\* are the static configuration bundle of that mode.
C14_ModeResolved ==
    /\ SessionCreated =>
           LET preferred == study_session.profile.preferred_modes
               expected == IF study_session.mode # None THEN study_session.mode
                           ELSE IF preferred # <<>> THEN preferred[1]
                           ELSE Member("basic_educational")
           IN  /\ study_session.value.mode = expected
               /\ study_session.value.settings = mode_configurations(expected)
    /\ \A mode \in SessionModes :
           LET no_preference == [DefaultProfile("u1") EXCEPT !.preferred_modes = <<>>]
               created == create_personalized_session("u1", <<>>, mode, no_preference,
                                                      <<>>, now)
               expected == IF mode # None THEN mode ELSE Member("basic_educational")
           IN  /\ created.mode = expected
               /\ created.settings = mode_configurations(expected)

C14_Witness ==
    /\ SessionCreated
    /\ study_session.mode = Member("challenge")
    /\ study_session.profile.preferred_modes[1] = Member("basic_educational")
    /\ study_session.value.mode = Member("challenge")
    /\ study_session.value.settings.time_per_card = 15

\* C15 (under SpecSession): in a fast-review session every front has length
\* <= 100 and every back length <= 150: a front longer than 100 becomes its
\* first 97 characters followed by "...", a back longer than 150 its first
\* 147 characters followed by "...", and a shorter text is left unchanged.
C15_FastReviewTruncation ==
    (SessionCreated /\ study_session.value.mode = Member("fast_review")) =>
        /\ Len(study_session.value.cards) = Len(study_session.cards)
        /\ \A i \in 1..Len(study_session.cards) :
               LET card == study_session.cards[i]
                   simplified == study_session.value.cards[i]
                   dots == <<46, 46, 46>>
               IN  /\ card.front = Missing => simplified.front = Missing
                   /\ card.back = Missing => simplified.back = Missing
                   /\ card.front # Missing =>
                          /\ Len(simplified.front[1]) <= 100
                          /\ IF Len(card.front[1]) > 100
                             THEN /\ simplified.front[1] = SubSeq(card.front[1], 1, 97) \o dots
                                  /\ Len(simplified.front[1]) = 100
                             ELSE simplified.front = card.front
                   /\ card.back # Missing =>
                          /\ Len(simplified.back[1]) <= 150
                          /\ IF Len(card.back[1]) > 150
                             THEN /\ simplified.back[1] = SubSeq(card.back[1], 1, 147) \o dots
                                  /\ Len(simplified.back[1]) = 150
                             ELSE simplified.back = card.back

C15_Witness ==
    /\ SessionCreated
    /\ study_session.value.mode = Member("fast_review")
    /\ Len(study_session.cards) = 2
    /\ \A i \in 1..2 : study_session.cards[i].front # Missing
    /\ \A i \in 1..2 : study_session.cards[i].back # Missing
    /\ Len(study_session.cards[1].front[1]) = 101
    /\ Len(study_session.cards[1].back[1]) = 151
    /\ Len(study_session.value.cards[1].front[1]) = 100
    /\ Len(study_session.value.cards[1].back[1]) = 150
    /\ Len(study_session.cards[2].front[1]) = 100
    /\ Len(study_session.cards[2].back[1]) = 150
    /\ study_session.value.cards[2].front = study_session.cards[2].front
    /\ study_session.value.cards[2].back = study_session.cards[2].back

\* C16 (under SpecSession): in a session of any mode a card is marked
\* adjusted_difficulty 'easier', with time_limit the mode's time_per_card
\* plus 10 and show_hints true, exactly when one of its tags is in the
\* profile's weak_areas; every other card carries the mode's unmodified
\* time_per_card, show_hints, allow_retries and feedback_detail and no
\* adjusted_difficulty.
C16_WeakAreaAdjustment ==
    SessionCreated =>
        /\ Len(study_session.value.cards) = Len(study_session.cards)
        /\ \A k \in 1..Len(study_session.value.cards) :
               LET personalized == study_session.value.cards[k]
                   config == mode_configurations(study_session.value.mode)
                   weak_areas == study_session.profile.weak_areas
               IN  \E i \in 1..Len(study_session.cards) :
                       LET card == study_session.cards[i]
                           tags == IF card.tags = Missing THEN <<>> ELSE card.tags[1]
                           weak == \E a \in 1..Len(weak_areas), g \in 1..Len(tags) :
                                       tags[g] = weak_areas[a]
                       IN  /\ card.id = personalized.id
                           /\ personalized.mode_settings # Missing
                           /\ personalized.mode_settings[1].allow_retries = config.allow_retries
                           /\ personalized.mode_settings[1].feedback_detail = config.feedback_detail
                           /\ IF weak
                              THEN /\ personalized.adjusted_difficulty = Some("easier")
                                   /\ personalized.mode_settings[1].time_limit =
                                          config.time_per_card + 10
                                   /\ personalized.mode_settings[1].show_hints = TRUE
                              ELSE /\ personalized.adjusted_difficulty = Missing
                                   /\ personalized.mode_settings[1].time_limit =
                                          config.time_per_card
                                   /\ personalized.mode_settings[1].show_hints =
                                          config.show_hints

C16_Witness ==
    /\ SessionCreated
    /\ study_session.value.mode = Member("challenge")
    /\ study_session.profile.weak_areas # <<>>
    /\ \E k, l \in 1..Len(study_session.value.cards) :
           /\ study_session.value.cards[k].adjusted_difficulty = Some("easier")
           /\ study_session.value.cards[k].mode_settings[1].time_limit = 25
           /\ study_session.value.cards[k].mode_settings[1].show_hints = TRUE
           /\ study_session.value.cards[l].adjusted_difficulty = Missing
           /\ study_session.value.cards[l].mode_settings[1].time_limit = 15
           /\ study_session.value.cards[l].mode_settings[1].show_hints = FALSE

\* C17 (under SpecSession): in a spaced-repetition session the cards are a
\* permutation of the input ordered by non-increasing days since last
\* review, and every never-reviewed card comes before every reviewed card,
\* whatever the reviewed cards' ages.
C17_UnseenCardsFirst ==
    (SessionCreated /\ study_session.value.mode = Member("spaced_repetition")) =>
        LET cards == study_session.cards
            ordered == study_session.value.cards
            reviewed(card) == card.last_reviewed # Missing
            days(card) ==
                (study_session.at
                    - (card.last_reviewed[1].day * 24 + card.last_reviewed[1].hour)) \div 24
        IN  /\ Len(ordered) = Len(cards)
            /\ \E p \in Bijections(Len(cards)) :
                   \A k \in 1..Len(cards) :
                       /\ ordered[k].id = cards[p[k]].id
                       /\ ordered[k].last_reviewed = cards[p[k]].last_reviewed
            /\ \A k, l \in 1..Len(ordered) :
                   k < l =>
                       /\ (reviewed(ordered[k]) /\ reviewed(ordered[l])) =>
                              days(ordered[k]) >= days(ordered[l])
                       /\ ~(reviewed(ordered[k]) /\ ~reviewed(ordered[l]))

\* the difficulty rank easy < medium < hard, anything else as medium
RankOf(card) ==
    CASE card.difficulty = Some("easy") -> 1
      [] card.difficulty = Some("hard") -> 3
      [] OTHER -> 2

\* C18 (under SpecSession): in a challenge session the cards are a
\* permutation of the input in non-decreasing difficulty rank easy < medium
\* < hard, a missing or unrecognized difficulty ranking as medium, and cards
\* of equal rank keep their relative input order.
C18_DifficultyProgression ==
    (SessionCreated /\ study_session.value.mode = Member("challenge")) =>
        LET cards == study_session.cards
            ordered == study_session.value.cards
        IN  /\ Len(ordered) = Len(cards)
            /\ \E p \in Bijections(Len(cards)) :
                   /\ \A k \in 1..Len(cards) :
                          /\ ordered[k].id = cards[p[k]].id
                          /\ ordered[k].difficulty = cards[p[k]].difficulty
                   /\ \A k, l \in 1..Len(cards) :
                          k < l =>
                              /\ RankOf(cards[p[k]]) <= RankOf(cards[p[l]])
                              /\ RankOf(cards[p[k]]) = RankOf(cards[p[l]]) => p[k] < p[l]

C18_Witness ==
    /\ SessionCreated
    /\ study_session.value.mode = Member("challenge")
    /\ Len(study_session.cards) = 3
    /\ study_session.cards[1].difficulty = Some("expert")
    /\ study_session.cards[2].difficulty = Missing
    /\ study_session.cards[3].difficulty = Some("easy")
    /\ study_session.value.cards[1].id = study_session.cards[3].id
    /\ study_session.value.cards[2].id = study_session.cards[1].id
    /\ study_session.value.cards[3].id = study_session.cards[2].id

\* C19 (under SpecSession): in a basic-educational, exam-prep or fast-review
\* session the session has as many cards as the input and the card at each
\* position is the personalization of the input card at that position.
C19_InputOrderPreserved ==
    (SessionCreated
     /\ study_session.value.mode \in {Member("basic_educational"), Member("exam_prep"),
                                      Member("fast_review")}) =>
        /\ Len(study_session.value.cards) = Len(study_session.cards)
        /\ \A i \in 1..Len(study_session.cards) :
               LET card == study_session.cards[i]
                   personalized == study_session.value.cards[i]
               IN  /\ personalized.id = card.id
                   /\ personalized.tags = card.tags
                   /\ personalized.difficulty = card.difficulty
                   /\ personalized.last_reviewed = card.last_reviewed
                   /\ personalized.mode_settings # Missing
                   /\ study_session.value.mode = Member("basic_educational") =>
                          /\ personalized.front = card.front
                          /\ personalized.back = card.back
                   /\ study_session.value.mode = Member("exam_prep") =>
                          personalized.type = Some("multiple_choice")
                   /\ study_session.value.mode = Member("fast_review") =>
                          personalized.simplified = Some(TRUE)

C19_Witness ==
    /\ SessionCreated
    /\ study_session.value.mode = Member("fast_review")
    /\ Len(study_session.cards) = 3
    /\ study_session.cards[1].difficulty = Some("hard")
    /\ study_session.cards[2].difficulty = Some("easy")
    /\ study_session.cards[3].last_reviewed # Missing
    /\ \A i \in 1..3 : study_session.value.cards[i].id = study_session.cards[i].id

\* C20 (under SpecSession): in a challenge session every card's new back is
\* the original front and its new front is "What question would have this
\* answer: " followed by the original back, so the original front and back
\* are both recoverable from the transformed card.
C20_ReverseQuestioning ==
    (SessionCreated /\ study_session.value.mode = Member("challenge")) =>
        LET cards == study_session.cards
            reversed == study_session.value.cards
            question == ReversePrefix
            front_of(card) == IF card.front = Missing THEN <<>> ELSE card.front[1]
            back_of(card) == IF card.back = Missing THEN <<>> ELSE card.back[1]
        IN  /\ Len(reversed) = Len(cards)
            /\ \E p \in Bijections(Len(cards)) :
                   \A k \in 1..Len(cards) :
                       LET card == cards[p[k]]
                           new == reversed[k]
                       IN  /\ new.id = card.id
                           /\ new.back = Some(front_of(card))
                           /\ new.front = Some(question \o back_of(card))
                           /\ Len(new.front[1]) = Len(question) + Len(back_of(card))
                           /\ SubSeq(new.front[1], Len(question) + 1, Len(new.front[1]))
                                  = back_of(card)
                           /\ new.type = Some("reverse_questioning")

C20_Witness ==
    /\ SessionCreated
    /\ study_session.value.mode = Member("challenge")
    /\ Len(study_session.cards) = 2
    /\ study_session.cards[1].front # Missing
    /\ study_session.cards[1].back # Missing
    /\ study_session.cards[1].front # study_session.cards[1].back
    /\ study_session.cards[2].front = Missing
    /\ \E k \in 1..2 :
           /\ study_session.value.cards[k].id = study_session.cards[1].id
           /\ study_session.value.cards[k].back = study_session.cards[1].front
    /\ \E k \in 1..2 :
           /\ study_session.value.cards[k].id = study_session.cards[2].id
           /\ study_session.value.cards[k].back = Some(<<>>)

\* C21 (under SpecSession): in an exam-prep session every card that was not
\* multiple_choice already gets type multiple_choice, correct_answer equal to
\* its back, and exactly 4 choices that are a permutation of the back plus
\* the three placeholder distractors; a card that was multiple_choice keeps
\* its type and choices.
C21_MultipleChoiceConversion ==
    (SessionCreated /\ study_session.value.mode = Member("exam_prep")) =>
        /\ Len(study_session.value.cards) = Len(study_session.cards)
        /\ \A i \in 1..Len(study_session.cards) :
               LET card == study_session.cards[i]
                   converted == study_session.value.cards[i]
                   back == IF card.back = Missing THEN <<>> ELSE card.back[1]
                   answers == <<back>> \o Distractors
               IN  IF card.type = Some("multiple_choice")
                   THEN /\ converted.type = card.type
                        /\ converted.choices = card.choices
                        /\ converted.correct_answer = card.correct_answer
                   ELSE /\ converted.type = Some("multiple_choice")
                        /\ converted.correct_answer = Some(back)
                        /\ converted.choices # Missing
                        /\ Len(converted.choices[1]) = 4
                        /\ \E p \in Bijections(4) :
                               \A k \in 1..4 : converted.choices[1][k] = answers[p[k]]
                        /\ \E k \in 1..4 :
                               converted.choices[1][k] = converted.correct_answer[1]

C21_Witness ==
    /\ SessionCreated
    /\ study_session.value.mode = Member("exam_prep")
    /\ Len(study_session.cards) = 2
    /\ study_session.cards[1].type = Missing
    /\ study_session.cards[2].type = Some("multiple_choice")
    /\ study_session.value.cards[1].type = Some("multiple_choice")
    /\ study_session.value.cards[1].choices[1][3] = study_session.cards[1].back[1]
    /\ study_session.value.cards[1].choices[1][1] = Distractors[3]
    /\ study_session.value.cards[2].choices = study_session.cards[2].choices

\* the responses of a session that were not answered correctly, and the
\* number of times a tag occurs on their cards
IncorrectResponses(session_data) ==
    LET responses == IF session_data.responses = Missing THEN <<>>
                     ELSE session_data.responses[1]
    IN  {[tags |-> IF responses[i].card = Missing \/ responses[i].card[1].tags = Missing
                   THEN <<>> ELSE responses[i].card[1].tags[1],
          at |-> i] : i \in {j \in 1..Len(responses) : responses[j].correct # Some(TRUE)}}

TagCount(session_data, tag) ==
    Cardinality(UNION {{<<r.at, g>> : g \in {h \in 1..Len(r.tags) : r.tags[h] = tag}} :
                          r \in IncorrectResponses(session_data)})

IncorrectTags(session_data) ==
    UNION {{r.tags[g] : g \in 1..Len(r.tags)} : r \in IncorrectResponses(session_data)}

\* C22 (under SpecWeakAreas): after each update_user_profile call weak_areas has at
\* most 5 entries and is the most frequent tags, by occurrence count and
\* highest first, among the cards of that session's incorrect responses; it
\* replaces the previous weak_areas, so a session without incorrect
\* responses leaves it empty.
C22_WeakAreasMostFrequent ==
    last_call.op = "update_user_profile" =>
        LET weak_areas == user_profiles[last_call.user_id][1].weak_areas
            session_data == last_call.session_data
            tags == IncorrectTags(session_data)
        IN  /\ Len(weak_areas) <= 5
            /\ Len(weak_areas) = IF Cardinality(tags) < 5 THEN Cardinality(tags) ELSE 5
            /\ \A i \in 1..Len(weak_areas) : weak_areas[i] \in tags
            /\ \A i, j \in 1..Len(weak_areas) : i # j => weak_areas[i] # weak_areas[j]
            /\ \A i, j \in 1..Len(weak_areas) :
                   i < j => TagCount(session_data, weak_areas[i])
                                >= TagCount(session_data, weak_areas[j])
            /\ \A tag \in tags :
                   (\A i \in 1..Len(weak_areas) : weak_areas[i] # tag) =>
                       \A i \in 1..Len(weak_areas) :
                           TagCount(session_data, tag) <= TagCount(session_data, weak_areas[i])
            /\ IncorrectResponses(session_data) = {} => weak_areas = <<>>

C22_Witness ==
    /\ last_call.op = "update_user_profile"
    /\ last_call.before[last_call.user_id] # Missing
    /\ Len(last_call.before[last_call.user_id][1].weak_areas) = 2
    /\ Cardinality(IncorrectTags(last_call.session_data)) = 6
    /\ Len(user_profiles[last_call.user_id][1].weak_areas) = 5
    /\ TagCount(last_call.session_data, user_profiles[last_call.user_id][1].weak_areas[1]) = 2
    /\ TagCount(last_call.session_data, user_profiles[last_call.user_id][1].weak_areas[5]) = 1

(***************************************************************************)
(* Properties of the scheduler: records with missing fields                *)
(***************************************************************************)
\* C23 (under SpecScheduler): a latest record without accuracy is treated as
\* accuracy 0.5, so the index becomes max(0, i - 1); a record without
\* interval_index is treated as index 0; neither case raises.
C23_MissingFieldsDefault ==
    CalcOnHistory =>
        /\ LatestRecord.accuracy = Missing =>
               /\ sched.ret.interval_index =
                      (IF LatestIndex - 1 < 0 THEN 0 ELSE LatestIndex - 1)
               /\ sched.ret.raised = "none"
        /\ LatestRecord.interval_index = Missing =>
               /\ sched.ret.interval_index = (IF LatestAccuracy >= 90 THEN 1 ELSE 0)
               /\ sched.ret.raised = "none"

(***************************************************************************)
(* Properties of the profiles of several users                             *)
(***************************************************************************)
\* C24 (under SpecProfiles): one profile per user; get_user_profile creates
\* the default profile on first access and leaves a stored profile as it is
\* on every later access; create_personalized_session or update_user_profile
\* for one user never changes the stored profile of another user.
C24_OneProfilePerUser ==
    /\ \A u \in Users : user_profiles[u] # Missing => user_profiles[u][1].user_id = u
    /\ last_call.op # "none" =>
           \A u \in Users : u # last_call.user_id => user_profiles[u] = last_call.before[u]
    /\ last_call.op \in {"get_user_profile", "create_personalized_session"} =>
           LET u == last_call.user_id
           IN  IF last_call.before[u] = Missing
               THEN user_profiles[u] =
                        Some([user_id |-> u,
                              preferred_modes |-> <<Member("basic_educational")>>,
                              preferred_styles |-> <<"definition_based">>,
                              difficulty_preference |-> "medium",
                              study_time_preference |-> 30,
                              performance_history |-> <<>>,
                              learning_goals |-> <<>>,
                              weak_areas |-> <<>>])
               ELSE user_profiles[u] = last_call.before[u]

C24_Witness ==
    /\ last_call.op = "update_user_profile"
    /\ last_call.user_id = "u2"
    /\ last_call.before["u1"] # Missing
    /\ last_call.before["u1"][1].weak_areas # <<>>
    /\ user_profiles["u1"] = last_call.before["u1"]
    /\ user_profiles["u2"] # last_call.before["u2"]
    /\ user_profiles["u2"][1].weak_areas = <<>>

(***************************************************************************)
(* Properties of the theme manager                                         *)
(***************************************************************************)
\* C25 (under SpecTheme): get_theme_config returns the named theme's own
\* bundle for each defined theme name and the bundle of clean_minimal for
\* every other name; it never raises and never changes the theme table, and
\* generate_css succeeds for any theme name.
C25_ThemeFallback ==
    /\ themes = ThemeTable
    /\ \A i \in 1..Len(theme_log) :
           LET call == theme_log[i]
               defined == call.theme_name \in {"clean_minimal", "exam_focused",
                                               "gamified", "minimalist"}
               expected == IF defined THEN ThemeTable[call.theme_name]
                           ELSE ThemeTable["clean_minimal"]
           IN  /\ call.ret.raised = "none"
               /\ call.op = "get_theme_config" =>
                      /\ call.ret.value = expected
                      /\ call.theme_name = "clean_minimal" =>
                             call.ret.value.colors[1].primary = "#2563eb"
                      /\ call.theme_name = "exam_focused" =>
                             call.ret.value.colors[1].primary = "#dc2626"
                      /\ call.theme_name = "gamified" =>
                             call.ret.value.colors[1].primary = "#7c3aed"
                      /\ call.theme_name = "minimalist" =>
                             call.ret.value.colors[1].primary = "#374151"
                      /\ ~defined => call.ret.value.colors[1].primary = "#2563eb"
               /\ call.op = "generate_css" =>
                      /\ call.ret.value.primary_button.background_color =
                             expected.colors[1].primary
                      /\ call.ret.value.flashcard_container.background_color =
                             expected.colors[1].background

C25_Witness ==
    /\ Len(theme_log) = 2
    /\ theme_log[1].op = "get_theme_config"
    /\ theme_log[1].theme_name = "spaced_rep"
    /\ theme_log[1].ret.raised = "none"
    /\ theme_log[1].ret.value.fonts[1].primary = "Inter, sans-serif"
    /\ theme_log[2].op = "generate_css"
    /\ theme_log[2].theme_name = "dark"
    /\ theme_log[2].ret.raised = "none"
    /\ theme_log[2].ret.value.flashcard.border_radius = "12px"
    /\ themes = ThemeTable

StudiedDaysBack ==
    {streak_call.at \div 24
        - (streak_call.sessions[i].date.day * 24 + streak_call.sessions[i].date.hour) \div 24 :
            i \in 1..Len(streak_call.sessions)}

\* C27 (under SpecStreak): _calculate_study_streak returns the length of the
\* run of consecutive calendar days ending today on each of which at least
\* one session is recorded, several sessions of a day counting once (a
\* session on each of today, yesterday and the day before gives 3).
C27_StreakIsRunEndingToday ==
    streak_call.state = "returned" =>
        /\ \A back \in 0..(streak_call.ret - 1) : back \in StudiedDaysBack
        /\ streak_call.ret \notin StudiedDaysBack
        /\ streak_call.ret >= 0

(***************************************************************************)
(* Properties of the preferred modes                                       *)
(***************************************************************************)
\* C28 (under SpecProfiles): for a profile created by get_user_profile and
\* changed only through update_user_profile, the first entry of
\* preferred_modes is basic-educational in every reachable state, so
\* create_personalized_session without an explicit mode always produces a
\* basic-educational session, whatever sessions the user completed before.
C28_FirstPreferredIsBasic ==
    /\ \A u \in Users :
           user_profiles[u] # Missing =>
               /\ user_profiles[u][1].preferred_modes # <<>>
               /\ user_profiles[u][1].preferred_modes[1] = Member("basic_educational")
    /\ (SessionCreated /\ study_session.mode = None) =>
           /\ study_session.value.mode = Member("basic_educational")
           /\ study_session.value.settings.ui_theme = "clean_minimal"
           /\ \A i \in 1..Len(study_session.value.cards) :
                  study_session.value.cards[i].mode_settings[1].feedback_detail
                      = "comprehensive"

C28_Witness ==
    /\ SessionCreated
    /\ last_call.op = "create_personalized_session"
    /\ study_session.mode = None
    /\ calls = 2
    /\ Len(study_session.profile.preferred_modes) = 3
    /\ Len(study_session.profile.performance_history) = 2
    /\ study_session.value.mode = Member("basic_educational")
    /\ Len(study_session.value.cards) = 2

(***************************************************************************)
(* Properties of the edit sessions                                         *)
(***************************************************************************)
\* C29 (under SpecEditor): each suggestion is resolved at most once: no
\* suggestion id occurs more than once across accepted_suggestions and
\* rejected_suggestions together, so the counts end_session reports sum to
\* at most the number of suggestions generated; apply_suggestion on an
\* unknown session or unknown suggestion id returns False and changes
\* nothing.
C29_ResolvedAtMostOnce ==
    /\ \A session_id \in EditSessionIds :
           active_sessions[session_id] # Missing =>
               LET resolved == active_sessions[session_id][1].accepted_suggestions
                                   \o active_sessions[session_id][1].rejected_suggestions
               IN  \A i, j \in 1..Len(resolved) : i # j => resolved[i] # resolved[j]
    /\ (editor_call.op = "end_session" /\ editor_call.ret.value # <<>>) =>
           editor_call.ret.value[1].suggestions_accepted
               + editor_call.ret.value[1].suggestions_rejected <= editor_call.generated
    /\ editor_call.op = "apply_suggestion" =>
           LET known_session ==
                   /\ editor_call.session_id \in EditSessionIds
                   /\ editor_call.before[editor_call.session_id] # Missing
               known_suggestion ==
                   /\ known_session
                   /\ \E i \in 1..Len(editor_call.before[editor_call.session_id][1].suggestions) :
                          [kind |-> "numeric",
                           value |-> editor_call.before[editor_call.session_id][1]
                                         .suggestions[i].object_id]
                              = editor_call.suggestion_id
           IN  ~known_suggestion =>
                   /\ editor_call.ret.raised = "none"
                   /\ editor_call.ret.value = FALSE
                   /\ active_sessions = editor_call.before

(***************************************************************************)
(* Properties of the deck ratings                                          *)
(***************************************************************************)
\* C30 (under SpecCommunity): after any sequence of rate_deck calls each
\* (deck, user) pair has at most one stored rating, a repeated rating by the
\* same user replacing the earlier one, and a deck's rating_count is the
\* number of distinct users whose rating is stored for it; a call with a
\* rating outside 1..5 returns False and changes neither the ratings nor the
\* deck's rating_count and rating_average.
C30_OneRatingPerUser ==
    /\ \A r1, r2 \in deck_ratings :
           (r1.deck_id = r2.deck_id /\ r1.user_id = r2.user_id) => r1 = r2
    /\ \A deck_id \in DeckIds :
           shared_decks[deck_id] # Missing =>
               shared_decks[deck_id][1].rating_count =
                   Cardinality({r.user_id : r \in {x \in deck_ratings : x.deck_id = deck_id}})
    /\ rating_call.op = "rate_deck" =>
           IF rating_call.rating \in 1..5
           THEN /\ rating_call.ret = TRUE
                /\ \E r \in deck_ratings :
                       /\ r.deck_id = rating_call.deck_id
                       /\ r.user_id = rating_call.user_id
                       /\ r.rating = rating_call.rating
           ELSE /\ rating_call.ret = FALSE
                /\ deck_ratings = rating_call.before.ratings
                /\ shared_decks = rating_call.before.decks

C30_Witness ==
    /\ rating_call.op = "rate_deck"
    /\ rating_call.ret = TRUE
    /\ rating_call.rating = 3
    /\ \E r \in rating_call.before.ratings :
           /\ r.deck_id = rating_call.deck_id
           /\ r.user_id = rating_call.user_id
           /\ r.rating = 5
    /\ shared_decks[rating_call.deck_id] # Missing
    /\ rating_call.before.decks[rating_call.deck_id][1].rating_count = 2
    /\ shared_decks[rating_call.deck_id][1].rating_count = 2
    /\ shared_decks[rating_call.deck_id][1].rating_average = <<4, 2>>

====
